---- MODULE Spec2Model ----
(***************************************************************************)
(* A model of the Odoo XML-RPC client (OdooClient) of odoo-mcp: the        *)
(* session identity, the remote calls with their timers, the response      *)
(* validator with its diagnostic I/O, and the requests it builds.          *)
(*                                                                         *)
(* Strings are sequences of tokens: a token is a literal piece of text of  *)
(* the source or an atom of remote text.  One action is one macrotask of   *)
(* the event loop (an I/O callback or a timer callback) together with the  *)
(* promise continuations it releases.                                      *)
(***************************************************************************)
EXTENDS Integers, Sequences, FiniteSets, TLC

(* ------------------------------------------------------------------ *)
(* Bounds of the model and constants of the program                    *)
(* ------------------------------------------------------------------ *)

\* number of invocation slots that may overlap
MaxCalls == 2
\* identities the remote side may hand out: 1..MaxIdentity
MaxIdentity == 2

\* setTimeout(..., 15000) of authenticate, in time units
AuthTimeout == 15
\* setTimeout(..., 20000) of searchRead
SearchTimeout == 20
\* setTimeout(..., 10000) of testConnection
ConnTimeout == 10
\* timeout: 10000 of testHttpEndpoint
ProbeTimeout == 10
\* timeout: 5000 of inspectResponseBody
BodyTimeout == 5
\* limit = 100, offset = 0 of searchRead's destructuring defaults
DefaultLimit == 100
DefaultOffset == 0
\* this.uid = null
NoUid == 0

Calls == 1..MaxCalls
Identities == 1..MaxIdentity

(* ------------------------------------------------------------------ *)
(* Strings                                                              *)
(* ------------------------------------------------------------------ *)

SIG == "Unknown XML-RPC tag"
QUOTE == "'"
SPACE == " "

\* String.prototype.includes for a needle that is one token
Includes(s, t) == \E i \in 1..Len(s) : s[i] = t

\* String.prototype.includes for a needle that is a string
Contains(s, t) ==
  \E k \in 0..(Len(s) - Len(t)) : \A i \in 1..Len(t) : s[k + i] = t[i]

\* the least element of a non-empty set of integers
Least(S) == CHOOSE x \in S : \A y \in S : x <= y

(* ------------------------------------------------------------------ *)
(* Remote values                                                        *)
(* ------------------------------------------------------------------ *)

\* a value of the remote side: null/undefined, false, a number or a list
Null == [t |-> "null", n |-> 0, l |-> <<>>]
False == [t |-> "bool", n |-> 0, l |-> <<>>]
Num(k) == [t |-> "num", n |-> k, l |-> <<>>]
List(s) == [t |-> "list", n |-> 0, l |-> s]

\* JavaScript's !v
Falsy(v) == v.t = "null" \/ v.t = "bool" \/ (v.t = "num" /\ v.n = 0)

\* an error object of the xmlrpc library: message and code, each optional
Err(m, c) == [isErr |-> TRUE, hasMsg |-> TRUE, message |-> m, hasCode |-> c # "", code |-> c]
ErrNoMsg(c) == [isErr |-> TRUE, hasMsg |-> FALSE, message |-> <<>>, hasCode |-> c # "", code |-> c]
NoErr == [isErr |-> FALSE, hasMsg |-> FALSE, message |-> <<>>, hasCode |-> FALSE, code |-> ""]

\* `${error.message}` : the message, or the text undefined
MsgText(e) == IF e.hasMsg THEN e.message ELSE <<"undefined">>

\* error.message || error.code || 'Unknown error'
MsgOrCode(e) ==
  IF e.hasMsg /\ e.message # <<>> THEN e.message
  ELSE IF e.hasCode THEN <<e.code>>
  ELSE <<"Unknown error">>

\* an Operation Outcome (OdooResponse)
Success(d) == [success |-> TRUE, data |-> d, error |-> <<>>]
Failure(m) == [success |-> FALSE, data |-> Null, error |-> m]
NoOutcome == [success |-> FALSE, data |-> Null, error |-> <<"(pending)">>]

(* ------------------------------------------------------------------ *)
(* Endpoint Resolver: validateAndSuggestUrls                            *)
(* ------------------------------------------------------------------ *)

\* An address is a string over these tokens: a scheme ("https:", "http:"),
\* "//", a host name, ":" and a port number, "/" and path pieces ("/web").
Schemes == {"https:", "http:"}
Hosts == {"acme.example.com", "ACME.example.com", "localhost", "httpbin.org"}
Ports == {"8069", "443", "80", "8443"}
PathPieces == {"/xmlrpc/2/common", "/odoo", "/web", "/start"}
SUBPATH == "/xmlrpc/2/common"

\* URL.hostname is the host in lower case
LowerHost(h) == IF h = "ACME.example.com" THEN "acme.example.com" ELSE h

\* a variant of startsWith that looks for the scheme 'http:'
StartsWithHttpScheme(s) == Len(s) > 0 /\ s[1] = "http:"

\* configUrl.startsWith('http'): the first token begins with these letters
StartsWithHttp(s) == Len(s) > 0 /\ s[1] \in Schemes \cup {"httpbin.org"}

\* the port a scheme implies, which URL.port reports as ''
SchemePort(p) == IF p = "https:" THEN "443" ELSE "80"

\* where the path of a tokenised address starts (after scheme // host [: port])
PathStart(s) ==
  IF Len(s) >= 5 /\ s[4] = ":" /\ s[5] \in Ports THEN 6 ELSE 4

\* new URL(configUrl) does not throw, for the addresses of the model:
\* scheme // host [: port] [path pieces] [/] parses; the empty address, a
\* bare host, a host with a path and a scheme with nothing after // throw
UrlParses(s) ==
  /\ Len(s) >= 3
  /\ s[1] \in Schemes
  /\ s[2] = "//"
  /\ s[3] \in Hosts
  /\ \A i \in PathStart(s)..Len(s) : s[i] \in PathPieces \cup {"/"}
  /\ \A i \in PathStart(s)..Len(s) : (s[i] = "/" => i = Len(s))

\* the fields of new URL(configUrl) that the client reads
UrlOf(s) ==
  LET hasPort == Len(s) >= 5 /\ s[4] = ":" /\ s[5] \in Ports
      rest == SubSeq(s, PathStart(s), Len(s))
  IN [protocol |-> s[1],
      hostname |-> LowerHost(s[3]),
      port |-> IF hasPort /\ s[5] # SchemePort(s[1]) THEN s[5] ELSE "",
      pathname |-> IF rest = <<>> THEN <<"/">> ELSE rest]

\* configUrl.replace(/\/$/, '')
StripTrailingSlash(s) ==
  IF Len(s) > 0 /\ s[Len(s)] = "/" THEN SubSeq(s, 1, Len(s) - 1) ELSE s

\* a variant that keeps every entry
DedupNone(list) == list

\* a variant that drops an entry only when it repeats the one before it
DedupAdjacent(list) ==
  LET keep == {i \in 1..Len(list) : i = 1 \/ list[i] # list[i - 1]}
      nth(k) == CHOOSE i \in keep : Cardinality({j \in keep : j <= i}) = k
  IN [k \in 1..Cardinality(keep) |-> list[nth(k)]]

\* [...new Set(list)]: the first occurrence of each entry, in order
RECURSIVE Dedup(_)
Dedup(list) ==
  IF list = <<>> THEN <<>>
  ELSE LET front == Dedup(SubSeq(list, 1, Len(list) - 1))
           last == list[Len(list)]
       IN IF \E i \in 1..Len(front) : front[i] = last THEN front
          ELSE Append(front, last)

validateAndSuggestUrls(configUrl) ==
  IF UrlParses(configUrl) THEN
    LET url == UrlOf(configUrl)
        origin == <<url.protocol, "//", url.hostname>>
        s1 == IF url.pathname = <<"/">>
              THEN << StripTrailingSlash(configUrl) \o <<SUBPATH>> >>
              ELSE <<>>
        s2 == IF url.port = ""
              THEN << origin \o <<":", "8069", SUBPATH>>,
                      origin \o <<":", "443", SUBPATH>> >>
              ELSE <<>>
        baseUrl == origin \o (IF url.port # "" THEN <<":", url.port>> ELSE <<>>)
        s3 == << baseUrl \o <<SUBPATH>>,
                 baseUrl \o <<":", "8069", SUBPATH>>,
                 baseUrl \o <<"/odoo", SUBPATH>>,
                 baseUrl \o <<"/web", SUBPATH>> >>
    IN [isValid |-> TRUE, suggestions |-> Dedup(s1 \o s2 \o s3)]
  ELSE
    [isValid |-> FALSE,
     suggestions |->
       Dedup(IF StartsWithHttp(configUrl)
             THEN <<>>
             ELSE << <<"https:", "//">> \o configUrl \o <<SUBPATH>>,
                     <<"http:", "//">> \o configUrl \o <<":", "8069", SUBPATH>> >>)]

\* suggestion.replace('/xmlrpc/2/common', ''): the first occurrence removed
RemoveSubpath(s) ==
  IF Includes(s, SUBPATH)
  THEN LET i == Least({k \in 1..Len(s) : s[k] = SUBPATH})
       IN SubSeq(s, 1, i - 1) \o SubSeq(s, i + 1, Len(s))
  ELSE s

\* config.url of the client under analysis
ConfigUrl == <<"https:", "//", "acme.example.com">>

(* ------------------------------------------------------------------ *)
(* Transport Probe: testHttpEndpoint, and inspectResponseBody           *)
(* ------------------------------------------------------------------ *)

\* what the HTTP layer reports to a request: a response, an error, a timeout
\* res.headers of a response: a server header, and content-type when sent
HeadersOf(hasCT, ct) ==
  {<<"server", <<"nginx">>>>} \cup (IF hasCT THEN {<<"content-type", ct>>} ELSE {})

HttpResponse(status, hasCT, ct) ==
  [kind |-> "response", status |-> status, hasCT |-> hasCT, contentType |-> ct,
   headers |-> HeadersOf(hasCT, ct)]
HttpError ==
  [kind |-> "error", status |-> 0, hasCT |-> FALSE, contentType |-> <<>>, headers |-> {}]
HttpTimeout ==
  [kind |-> "timeout", status |-> 0, hasCT |-> FALSE, contentType |-> <<>>, headers |-> {}]

\* `${res.statusCode}`
StatusText(n) ==
  CASE n = 200 -> "200" [] n = 201 -> "201" [] n = 204 -> "204"
    [] n = 301 -> "301" [] n = 302 -> "302" [] n = 400 -> "400"
    [] n = 401 -> "401" [] n = 403 -> "403" [] n = 404 -> "404"
    [] n = 405 -> "405" [] n = 500 -> "500" [] n = 502 -> "502"
    [] n = 503 -> "503" [] OTHER -> "???"

\* a variant that takes every 2xx status, and no other, for a live endpoint
IsLiveStatus2xx(n) == n \in 200..299

\* res.statusCode === 200 || res.statusCode === 400 || res.statusCode === 500
IsLiveStatus(n) == n = 200 \/ n = 400 \/ n = 500

MSG_405 == "HTTP 405: XML-RPC endpoint found but method not allowed. This usually means the endpoint is correct but needs proper XML-RPC requests."
MSG_PROBE_TIMEOUT == "HTTP request timed out. Server might be overloaded or unreachable."

\* the outcome testHttpEndpoint resolves for what the HTTP layer reported
testHttpEndpoint(r) ==
  IF r.kind = "response" THEN
    IF IsLiveStatus(r.status) THEN
      [success |-> TRUE, status |-> r.status, hasCT |-> r.hasCT,
       contentType |-> r.contentType, headers |-> r.headers, error |-> <<>>]
    ELSE IF r.status = 405 THEN
      [success |-> FALSE, status |-> 0, hasCT |-> FALSE, contentType |-> <<>>, headers |-> {},
       error |-> <<MSG_405>>]
    ELSE
      [success |-> FALSE, status |-> 0, hasCT |-> FALSE, contentType |-> <<>>, headers |-> {},
       error |-> <<"HTTP ", StatusText(r.status), ": ", "statusMessage",
                   ". Check if XML-RPC is enabled on this Odoo instance.">>]
  ELSE IF r.kind = "error" THEN
    [success |-> FALSE, status |-> 0, hasCT |-> FALSE, contentType |-> <<>>, headers |-> {},
     error |-> <<"HTTP request failed: ", "error.message",
                 ". Check URL and network connectivity.">>]
  ELSE
    [success |-> FALSE, status |-> 0, hasCT |-> FALSE, contentType |-> <<>>, headers |-> {},
     error |-> <<MSG_PROBE_TIMEOUT>>]

\* what the body fetch reports: the body read, an error, a timeout
BodyRead(b) == [kind |-> "response", body |-> b]
BodyError == [kind |-> "error", body |-> <<>>]
BodyTimedOut == [kind |-> "timeout", body |-> <<>>]

\* the string inspectResponseBody resolves
inspectResponseBody(r) ==
  IF r.kind = "response" THEN r.body
  ELSE IF r.kind = "error" THEN <<"Unable to fetch response body">>
  ELSE <<"Response body fetch timed out">>

(* ------------------------------------------------------------------ *)
(* Response Validator / Diagnostic Classifier: validateXmlRpcResponse   *)
(* ------------------------------------------------------------------ *)

\* a variant that takes every remote error for a structural failure
IsTagErrorAny(e) == e.isErr

\* error.message && error.message.includes('Unknown XML-RPC tag')
IsTagError(e) == e.isErr /\ e.hasMsg /\ e.message # <<>> /\ Includes(e.message, SIG)

\* /Unknown XML-RPC tag '([^']+)'/ matches at position i of m
TagMatchAt(m, i) ==
  /\ i + 4 <= Len(m)
  /\ m[i] = SIG /\ m[i + 1] = SPACE /\ m[i + 2] = QUOTE
  /\ m[i + 3] # QUOTE
  /\ \E j \in (i + 4)..Len(m) : m[j] = QUOTE

\* a variant whose group is greedy, /Unknown XML-RPC tag '(.+)'/
HtmlTagGreedy(m) ==
  LET at == {i \in 1..Len(m) : TagMatchAt(m, i)}
  IN IF at = {} THEN <<"undefined">>
     ELSE LET i == Least(at)
              j == CHOOSE k \in (i + 4)..Len(m) :
                     m[k] = QUOTE /\ \A l \in (k + 1)..Len(m) : m[l] # QUOTE
          IN SubSeq(m, i + 3, j - 1)

\* error.message.match(/Unknown XML-RPC tag '([^']+)'/)?.[1], as `${htmlTag}`
HtmlTag(m) ==
  LET at == {i \in 1..Len(m) : TagMatchAt(m, i)}
  IN IF at = {} THEN <<"undefined">>
     ELSE LET i == Least(at)
              j == Least({k \in (i + 4)..Len(m) : m[k] = QUOTE})
          IN SubSeq(m, i + 3, j - 1)

\* the tokens of a body that are markup; every other token is text
OpenTitles == {"<title>", "<TITLE>", "<Title>", "<title lang=en>"}
CloseTitles == {"</title>", "</TITLE>"}
OtherTags == {"<html>", "<h1>"}
IsMarkup(t) == t \in OpenTitles \cup CloseTitles \cup OtherTags
Blank == "  "

\* String.prototype.toLowerCase on a text token
ToLower(t) ==
  CASE t = "404 Not Found" -> "404 not found"
    [] t = "Login" -> "login"
    [] t = "Sign In" -> "sign in"
    [] t = "Server Error" -> "server error"
    [] t = "Unhandled Exception" -> "unhandled exception"
    [] t = "Odoo" -> "odoo"
    [] OTHER -> t

\* lower-case text token t includes the needle
TokenIncludes(t, needle) ==
  CASE needle = "404" -> t = "404 not found"
    [] needle = "not found" -> t = "404 not found"
    [] needle = "login" -> t = "login"
    [] needle = "sign in" -> t = "sign in"
    [] needle = "error" -> t = "server error"
    [] needle = "exception" -> t = "unhandled exception"
    [] OTHER -> FALSE

\* title.toLowerCase().includes(needle)
LowerIncludes(title, needle) ==
  \E i \in 1..Len(title) : TokenIncludes(ToLower(title[i]), needle)

\* /<title[^>]*>([^<]+)<\/title>/i matches at position i of body b
TitleMatchAt(b, i) ==
  /\ i + 2 <= Len(b)
  /\ b[i] \in OpenTitles
  /\ ~IsMarkup(b[i + 1])
  /\ \E j \in (i + 2)..Len(b) :
       /\ b[j] \in CloseTitles
       /\ \A k \in (i + 1)..(j - 1) : ~IsMarkup(b[k])

\* String.prototype.trim
RECURSIVE Trim(_)
Trim(s) ==
  IF s = <<>> THEN s
  ELSE IF s[1] = Blank THEN Trim(Tail(s))
  ELSE IF s[Len(s)] = Blank THEN Trim(SubSeq(s, 1, Len(s) - 1))
  ELSE s

\* titleMatch ? titleMatch[1].trim() : 'Unknown'
TitleOf(b) ==
  LET at == {i \in 1..Len(b) : TitleMatchAt(b, i)}
  IN IF at = {} THEN <<"Unknown">>
     ELSE LET i == Least(at)
              j == Least({k \in (i + 2)..Len(b) : IsMarkup(b[k])})
          IN Trim(SubSeq(b, i + 1, j - 1))

MSG_404 == "\n\nThis is a 404 error page. The XML-RPC endpoint doesn't exist at this URL."
MSG_LOGIN == "\n\nThis is a login page. You may need to authenticate at the web server level first."
MSG_ERRPAGE == "\n\nThis appears to be an error page from Odoo."
MSG_XML == "\n\nThe Content-Type suggests this should be XML-RPC, but the response contains HTML elements. (...) Check your ODOO_DATABASE setting and ensure XML-RPC is properly configured."
MSG_HTML == "\n\nThis suggests: (...) Try these URLs in your .env file:"
MSG_HTML_END == "\n\nOr check if XML-RPC is enabled in Odoo configuration."

\* the lines the body's title adds to the diagnosis
TitleLines(responseBody) ==
  IF Includes(responseBody, "<title>") \/ Includes(responseBody, "<TITLE>") THEN
    LET title == TitleOf(responseBody)
    IN <<"\n\nPage title: \"">> \o title \o <<"\"">> \o
       (IF LowerIncludes(title, "404") \/ LowerIncludes(title, "not found")
          THEN <<MSG_404>>
        ELSE IF LowerIncludes(title, "login") \/ LowerIncludes(title, "sign in")
          THEN <<MSG_LOGIN>>
        ELSE IF LowerIncludes(title, "error") \/ LowerIncludes(title, "exception")
          THEN <<MSG_ERRPAGE>>
        ELSE <<>>)
  ELSE <<>>

IndexText(n) ==
  CASE n = 1 -> "1" [] n = 2 -> "2" [] n = 3 -> "3" [] n = 4 -> "4"
    [] n = 5 -> "5" [] OTHER -> "?"

\* urlSuggestions.suggestions.slice(0, 5).forEach(...): the numbered list
RECURSIVE SuggestionLines(_, _)
SuggestionLines(list, n) ==
  IF n = 0 THEN <<>>
  ELSE SuggestionLines(list, n - 1) \o
       <<"\n", IndexText(n), ". ODOO_URL=">> \o RemoveSubpath(list[n])

Min(a, b) == IF a <= b THEN a ELSE b

\* the lines the probed content type adds to the diagnosis
ContentTypeLines(contentType, configUrl) ==
  IF Includes(contentType, "text/xml") THEN <<MSG_XML>>
  ELSE IF Includes(contentType, "text/html") THEN
    LET list == validateAndSuggestUrls(configUrl).suggestions
    IN <<MSG_HTML>> \o SuggestionLines(list, Min(5, Len(list))) \o <<MSG_HTML_END>>
  ELSE <<>>

\* detailedError of the structural-failure branch
DetailedError(error, responseBody, httpTest, configUrl) ==
  <<"Server returned non-XML-RPC response (found <">> \o HtmlTag(error.message)
    \o <<"> tag). ">> \o
  (IF ~httpTest.success
     THEN <<"\n\nEndpoint test failed: ">> \o httpTest.error
   ELSE LET contentType == IF httpTest.hasCT /\ httpTest.contentType # <<>>
                           THEN httpTest.contentType ELSE <<"unknown">>
        IN <<"\n\nEndpoint returns Content-Type: ">> \o contentType
             \o TitleLines(responseBody)
             \o ContentTypeLines(contentType, configUrl))

\* validateXmlRpcResponse(error, result, operation), given what its body
\* fetch and its probe resolved (read on the structural-failure branch only)
validateXmlRpcResponse(error, result, operation, responseBody, httpTest) ==
  IF error.isErr THEN
    IF IsTagError(error)
    THEN Failure(DetailedError(error, responseBody, httpTest, ConfigUrl))
    ELSE Failure(<<operation, " failed: ">> \o MsgOrCode(error))
  ELSE Success(result)

\* placeholders for the I/O results the other branches never read
NoBody == <<>>
NoHttpTest ==
  [success |-> FALSE, status |-> 0, hasCT |-> FALSE, contentType |-> <<>>, headers |-> {},
   error |-> <<>>]

(* ------------------------------------------------------------------ *)
(* RPC Session: the state                                               *)
(* ------------------------------------------------------------------ *)

VARIABLES
  uid,      \* this.uid: NoUid or the identity the session holds
  slot,     \* the invocations of the client's operations, one per slot
  issued,   \* the identities the remote side has returned to authenticate calls
  cls,      \* one run of the classifier on its own: its input, stage and output
  tool,     \* the tool call the server is handling: its arguments, stage and result
  urls,     \* one run of validateAndSuggestUrls: its address and what it returned
  probe     \* one run of testHttpEndpoint on its own: the events of its request

vars == <<uid, slot, issued, cls, tool, urls, probe>>

Ops == {"authenticate", "searchRead", "count", "getFields", "testConnection"}
DataOps == {"searchRead", "count", "getFields"}

MSG_AUTH_TIMEOUT == "Authentication timed out - check your credentials and Odoo server status"
MSG_INVALID_CREDENTIALS == "Invalid credentials or API key. Check your username, database name, and API key."
MSG_SEARCH_TIMEOUT == "Search operation timed out - the query may be too complex or the server is overloaded"
MSG_CONN_TIMEOUT == "XML-RPC connection test timed out - check your Odoo URL and network connectivity"

\* OdooSearchParams: `given` holds the keys the caller supplied
ParamKeys == {"domain", "fields", "limit", "offset", "order"}
NoParams ==
  [given |-> {}, model |-> "", domain |-> <<>>, fields |-> <<>>,
   limit |-> 0, offset |-> 0, order |-> ""]

\* the arguments of an execute_kw call; kw tells whether the keyword map is sent
NoRequest ==
  [uid |-> NoUid, model |-> "", domain |-> <<>>, fields |-> <<>>,
   limit |-> 0, offset |-> 0, order |-> "", kw |-> FALSE]

\* what the callback of a remote call received: (error, result)
NoAnswer == [called |-> FALSE, e |-> NoErr, res |-> Null]
Answer(e, res) == [called |-> TRUE, e |-> e, res |-> res]

\* config.url + '/xmlrpc/2/object', the endpoint of objectClient
OBJECT_PATH == "/xmlrpc/2/object"

\* a variant that sends the diagnostic requests to the endpoint of the
\* remote call that failed
DiagPathOfCall(method) == IF method = "search_read" THEN OBJECT_PATH ELSE SUBPATH

\* the path of inspectResponseBody and testHttpEndpoint in the classifier
DiagPath(method) == SUBPATH

IdleSlot ==
  [op |-> "none", params |-> NoParams, pc |-> "idle", outcome |-> NoOutcome,
   hadUid |-> NoUid, alone |-> FALSE, authCalls |-> 0, execCalls |-> 0,
   authState |-> "none", authOutcome |-> NoOutcome, elapsed |-> 0,
   rpc |-> "none", method |-> "none", req |-> NoRequest, timer |-> -1,
   diag |-> -1, err |-> NoErr, res |-> Null, body |-> NoBody,
   late |-> FALSE, ans |-> NoAnswer, endpoint |-> "", diagPath |-> ""]

\* no classifier run on its own
NoRun == [stage |-> "none", error |-> NoErr, body |-> NoBody, out |-> NoOutcome]

\* the session after construction
SessionInit ==
  /\ uid = NoUid
  /\ slot = [c \in Calls |-> IdleSlot]
  /\ issued = {}

\* the arguments of a tool call: `given` holds the keys the request carries
ArgKeys ==
  {"domain", "limit", "offset", "fields", "order_id", "include_lines",
   "date_from", "date_to", "group_by"}
NoArgs ==
  [given |-> {}, domain |-> "", limit |-> 0, offset |-> 0, fields |-> <<>>,
   order_id |-> 0, include_lines |-> FALSE, date_from |-> <<>>, date_to |-> <<>>,
   group_by |-> ""]

\* what a tool call returns: a text, or the JSON text of an object, of
\* which the record keeps the number of orders, their total amount, the
\* order id and the order lines
ToolText(isError, words) ==
  [isError |-> isError, kind |-> "text", text |-> words, count |-> 0, amount |-> 0,
   order |-> 0, hasLines |-> FALSE, lines |-> <<>>]
ToolJson(kind, count, amount, order, hasLines, lines) ==
  [isError |-> FALSE, kind |-> kind, text |-> <<>>, count |-> count, amount |-> amount,
   order |-> order, hasLines |-> hasLines, lines |-> lines]
NoToolOut == ToolText(FALSE, <<>>)

\* an order or order line of the remote side, as search_read returns it
Row(id, amount, lines) == [id |-> id, amount_total |-> amount, order_line |-> lines]

\* no tool call, no resolver run, no probe run on its own
NoTool ==
  [stage |-> "idle", name |-> "none", args |-> NoArgs, out |-> NoToolOut,
   order |-> Row(0, 0, <<>>), sent |-> 0, matching |-> 0]
NoSuggestions == [isValid |-> FALSE, suggestions |-> <<>>]
NoLookup ==
  [stage |-> "none", address |-> <<>>, out |-> NoSuggestions, again |-> NoSuggestions]
NoProbeRun ==
  [stage |-> "none", first |-> HttpTimeout, out |-> NoHttpTest, destroyed |-> FALSE,
   later |-> {}]

Init ==
  /\ SessionInit
  /\ cls = NoRun /\ tool = NoTool /\ urls = NoLookup /\ probe = NoProbeRun

(* ------------------------------------------------------------------ *)
(* RPC Session: building and sending the remote calls                   *)
(* ------------------------------------------------------------------ *)

\* a variant that authenticates before every data call
NeedsAuthAlways(u) == TRUE

\* if (!this.uid)
NeedsAuth(u) == u = NoUid

\* a variant that takes the default with `limit || 100`
LimitOrDefault(p) == IF "limit" \in p.given /\ p.limit # 0 THEN p.limit ELSE DefaultLimit

\* const { limit = 100, ... } = params: a destructuring default
LimitOf(p) == IF "limit" \in p.given THEN p.limit ELSE DefaultLimit
OffsetOf(p) == IF "offset" \in p.given THEN p.offset ELSE DefaultOffset
OrderOf(p) == IF "order" \in p.given THEN p.order ELSE "id desc"
DomainOf(p) == IF "domain" \in p.given THEN p.domain ELSE <<>>
FieldsOf(p) == IF "fields" \in p.given THEN p.fields ELSE <<>>

\* the execute_kw arguments of searchRead, count and getFields
BuildRequest(op, p, u) ==
  IF op = "searchRead" THEN
    [uid |-> u, model |-> p.model, domain |-> DomainOf(p), fields |-> FieldsOf(p),
     limit |-> LimitOf(p), offset |-> OffsetOf(p), order |-> OrderOf(p), kw |-> TRUE]
  ELSE IF op = "count" THEN
    [uid |-> u, model |-> p.model, domain |-> DomainOf(p), fields |-> <<>>,
     limit |-> 0, offset |-> 0, order |-> "", kw |-> FALSE]
  ELSE
    [uid |-> u, model |-> p.model, domain |-> <<>>, fields |-> <<>>,
     limit |-> 0, offset |-> 0, order |-> "", kw |-> TRUE]

ExecMethod(op) ==
  IF op = "searchRead" THEN "search_read"
  ELSE IF op = "count" THEN "search_count"
  ELSE "fields_get"

\* the timer a data operation arms around its execute_kw call (-1: none)
ExecTimer(op) == IF op = "searchRead" THEN SearchTimeout ELSE -1

\* objectClient.methodCall('execute_kw', ...) of slot record r, identity u
SendExec(r, u) ==
  [r EXCEPT !.pc = "awaitCall", !.rpc = "inflight", !.method = ExecMethod(r.op),
            !.req = BuildRequest(r.op, r.params, u), !.timer = ExecTimer(r.op),
            !.execCalls = @ + 1, !.ans = NoAnswer, !.endpoint = OBJECT_PATH]

\* authenticate(): the promise, its timer and the authenticate remote call
SendAuth(r) ==
  [r EXCEPT !.pc = "awaitAuth", !.rpc = "inflight", !.method = "authenticate",
            !.authState = "pending", !.timer = AuthTimeout, !.elapsed = 0,
            !.authCalls = @ + 1, !.endpoint = SUBPATH]

\* testConnection(): the promise, its timer and the version remote call
SendVersion(r) ==
  [r EXCEPT !.pc = "awaitCall", !.rpc = "inflight", !.method = "version",
            !.timer = ConnTimeout, !.endpoint = SUBPATH]

\* a variant that reports its own message for a failed authentication
PassOnOwnMessage(o) == Failure(<<"Authentication failed">>)

\* return { success: false, error: authResult.error }
PassOnAuthFailure(o) == Failure(o.error)

\* a variant in which the awaiting operation goes on after a failed authenticate()
ResolveAuthNoReturn(r, o, u) ==
  IF r.authState # "pending" THEN r
  ELSE LET r1 == [r EXCEPT !.authState = "resolved", !.authOutcome = o]
       IN IF r.op = "authenticate" THEN [r1 EXCEPT !.pc = "done", !.outcome = o]
          ELSE SendExec(r1, u)

\* a variant in which a later resolve() replaces the settled outcome
ResolveAuthOverwrite(r, o, u) ==
  LET r1 == [r EXCEPT !.authState = "resolved", !.authOutcome = o]
  IN IF r.op = "authenticate" THEN [r1 EXCEPT !.pc = "done", !.outcome = o]
     ELSE IF r.authState # "pending" THEN r1
     ELSE IF ~o.success
       THEN [r1 EXCEPT !.pc = "done", !.outcome = PassOnAuthFailure(o)]
     ELSE SendExec(r1, u)

\* the authenticate() promise of r resolves with o while this.uid is u:
\* resolve() of a settled promise does nothing; otherwise the awaiting
\* operation continues
ResolveAuth(r, o, u) ==
  IF r.authState # "pending" THEN r
  ELSE LET r1 == [r EXCEPT !.authState = "resolved", !.authOutcome = o]
       IN IF r.op = "authenticate" THEN [r1 EXCEPT !.pc = "done", !.outcome = o]
          ELSE IF ~o.success
            THEN [r1 EXCEPT !.pc = "done", !.outcome = PassOnAuthFailure(o)]
          ELSE SendExec(r1, u)

\* a variant in which a data operation sends its execute_kw call once more
\* after a failure
ResolveCallRetry(r, o) ==
  IF r.pc # "awaitCall" THEN r
  ELSE IF ~o.success /\ r.op \in DataOps /\ r.execCalls < 2 THEN SendExec(r, r.req.uid)
  ELSE [r EXCEPT !.pc = "done", !.outcome = o]

\* the promise of the execute_kw or version call of r resolves with o
ResolveCall(r, o) ==
  IF r.pc # "awaitCall" THEN r
  ELSE [r EXCEPT !.pc = "done", !.outcome = o]

\* a slot is free for a new invocation
Free(r) == r.pc \in {"idle", "done"} /\ r.rpc \in {"none", "finished"}

\* an authenticate remote call of r is outstanding
AuthOutstanding(r) ==
  r.method = "authenticate" /\ r.rpc \in {"inflight", "fetchBody", "probe"}

\* a variant in which a data operation waits for the authenticate call
\* that another invocation has outstanding instead of sending its own
InvokedShared(c, op, p) ==
  LET r0 == [IdleSlot EXCEPT !.op = op, !.params = p, !.hadUid = uid,
               !.alone = \A d \in Calls \ {c} : ~AuthOutstanding(slot[d])]
      shares == op \in DataOps /\ NeedsAuth(uid) /\ ~r0.alone
      r1 == IF op = "authenticate" THEN SendAuth(r0)
            ELSE IF op = "testConnection" THEN SendVersion(r0)
            ELSE IF shares THEN [r0 EXCEPT !.pc = "awaitAuth", !.authState = "pending"]
            ELSE IF NeedsAuth(uid) THEN SendAuth(r0)
            ELSE SendExec(r0, uid)
  IN [d \in Calls |-> IF d = c THEN r1 ELSE slot[d]]

\* the slots once operation op has been invoked with parameters p on slot c
Invoked(c, op, p) ==
  LET r0 == [IdleSlot EXCEPT !.op = op, !.params = p, !.hadUid = uid,
               !.alone = \A d \in Calls \ {c} : ~AuthOutstanding(slot[d])]
      authing == op = "authenticate" \/ (op \in DataOps /\ NeedsAuth(uid))
      r1 == IF op = "authenticate" THEN SendAuth(r0)
            ELSE IF op = "testConnection" THEN SendVersion(r0)
            ELSE IF NeedsAuth(uid) THEN SendAuth(r0)
            ELSE SendExec(r0, uid)
  IN [d \in Calls |->
        IF d = c THEN r1
        ELSE IF authing THEN [slot[d] EXCEPT !.alone = FALSE]
        ELSE slot[d]]

\* the invocation of operation op with parameters p on slot c
Invoke(c, op, p) ==
  /\ Free(slot[c])
  /\ slot' = Invoked(c, op, p)
  /\ UNCHANGED <<uid, issued, cls, tool, urls, probe>>

(* ------------------------------------------------------------------ *)
(* What the remote side and the HTTP layer may answer                   *)
(* ------------------------------------------------------------------ *)

TagErrorHTML == Err(<<SIG, SPACE, QUOTE, "HTML", QUOTE>>, "")
AccessDenied == Err(<<"Access Denied">>, "")

\* the (error, value) pairs a callback of the xmlrpc client may receive,
\* with the errors out of E
\* and the identities out of Ids
Answers(method, E, Ids) ==
  {<<e, Null>> : e \in E} \cup
  (IF method = "authenticate"
     THEN {<<NoErr, Num(i)>> : i \in Ids} \cup {<<NoErr, False>>}
   ELSE IF method = "search_read"
     THEN {<<NoErr, List(<<"row">>)>>, <<NoErr, Null>>}
   ELSE IF method = "search_count"
     THEN {<<NoErr, Num(0)>>, <<NoErr, Num(3)>>}
   ELSE {<<NoErr, List(<<"info">>)>>})


(* ------------------------------------------------------------------ *)
(* RPC Session: the callbacks                                           *)
(* ------------------------------------------------------------------ *)

OperationName(method) ==
  IF method = "authenticate" THEN "Authentication"
  ELSE IF method = "search_read" THEN "SearchRead"
  ELSE "Connection test"

\* a variant that stores whatever a call without error returned
StoresIdentityUnchecked(v, res) == v.success

\* the callback of authenticate stores the identity: validation passed and uid is truthy
StoresIdentity(v, res) == v.success /\ ~Falsy(res)

\* a variant without the test of the identity
AuthOutcomeUnchecked(v, res) == IF v.success THEN Success(res) ELSE v

\* the outcome the callback of authenticate resolves, after validation result v
AuthOutcome(v, res) ==
  IF v.success THEN
    IF Falsy(res) THEN Failure(<<MSG_INVALID_CREDENTIALS>>) ELSE Success(res)
  ELSE v

\* the outcome the callback of searchRead resolves: data is result || []
SearchOutcome(v, res) ==
  IF v.success THEN Success(IF Falsy(res) THEN List(<<>>) ELSE res) ELSE v

\* a variant that takes a falsy result for a failure
CountOutcomeTruthy(e, res) ==
  IF e.isErr \/ Falsy(res) THEN Failure(<<"Count failed: ">> \o MsgText(e))
  ELSE Success(res)

\* a variant that reports error.message alone
CountOutcomeRaw(e, res) ==
  IF e.isErr THEN Failure(e.message) ELSE Success(res)

\* the outcome the callback of count resolves
CountOutcome(e, res) ==
  IF e.isErr THEN Failure(<<"Count failed: ">> \o MsgText(e)) ELSE Success(res)

\* the outcome the callback of getFields resolves
FieldsOutcome(e, res) ==
  IF e.isErr THEN Failure(<<"Fields retrieval failed: ">> \o MsgText(e)) ELSE Success(res)

\* the rest of a callback once validateXmlRpcResponse has returned v for
\* the answer (e, res) of slot c's remote call; r0 is the slot's record
\* with the call's bookkeeping done
Validated(c, r0, v, res) ==
  LET r1 == [r0 EXCEPT !.rpc = "finished", !.diag = -1, !.err = NoErr,
                       !.res = Null, !.body = NoBody]
  IN IF r0.method = "authenticate" THEN
       LET u == IF StoresIdentity(v, res) THEN res.n ELSE uid
       IN /\ uid' = u
          /\ slot' = [slot EXCEPT ![c] = ResolveAuth(r1, AuthOutcome(v, res), u)]
     ELSE IF r0.method = "search_read" THEN
       /\ uid' = uid
       /\ slot' = [slot EXCEPT ![c] = ResolveCall(r1, SearchOutcome(v, res))]
     ELSE
       /\ uid' = uid
       /\ slot' = [slot EXCEPT ![c] = ResolveCall(r1, v)]

\* the promise the remote call of r serves is already settled
Settled(r) ==
  IF r.method = "authenticate" THEN r.authState # "pending" ELSE r.pc # "awaitCall"

\* the remote side answers slot c's call with (e, res): the callback runs
RemoteAnswer(c, e, res) ==
  /\ slot[c].rpc = "inflight"
  /\ UNCHANGED <<cls, tool, urls, probe>>
  /\ issued' = IF slot[c].method = "authenticate" /\ ~e.isErr /\ ~Falsy(res)
               THEN issued \cup {res.n} ELSE issued
  /\ LET r0 == [slot[c] EXCEPT !.timer = -1, !.late = Settled(slot[c]),
                               !.ans = Answer(e, res)]
     IN IF r0.method = "search_count" THEN
          /\ slot' = [slot EXCEPT ![c] =
                        ResolveCall([r0 EXCEPT !.rpc = "finished"], CountOutcome(e, res))]
          /\ uid' = uid
        ELSE IF r0.method = "fields_get" THEN
          /\ slot' = [slot EXCEPT ![c] =
                        ResolveCall([r0 EXCEPT !.rpc = "finished"], FieldsOutcome(e, res))]
          /\ uid' = uid
        ELSE IF IsTagError(e) THEN
          \* await this.inspectResponseBody('/xmlrpc/2/common')
          /\ slot' = [slot EXCEPT ![c] =
                        [r0 EXCEPT !.rpc = "fetchBody", !.diag = BodyTimeout,
                                   !.err = e, !.res = res,
                                   !.diagPath = DiagPath(r0.method)]]
          /\ uid' = uid
        ELSE
          Validated(c, r0,
            validateXmlRpcResponse(e, res, OperationName(r0.method), NoBody, NoHttpTest),
            res)

\* inspectResponseBody resolves for slot c; testHttpEndpoint starts
BodyResolved(c, b) ==
  /\ slot' = [slot EXCEPT ![c] =
                [@ EXCEPT !.rpc = "probe", !.diag = ProbeTimeout,
                          !.body = inspectResponseBody(b),
                          !.diagPath = DiagPath(slot[c].method)]]
  /\ UNCHANGED <<uid, issued, cls, tool, urls, probe>>

\* res.on('end'): the body fetch of slot c read body b
BodyFetched(c, b) ==
  /\ slot[c].rpc = "fetchBody"
  /\ BodyResolved(c, BodyRead(b))

\* req.on('error') of the body fetch
BodyFetchFailed(c) ==
  /\ slot[c].rpc = "fetchBody"
  /\ BodyResolved(c, BodyError)

\* a variant whose handler destroys the request and resolves nothing
BodyFetchTimedOutSilent(c) ==
  /\ slot[c].rpc = "fetchBody"
  /\ slot[c].diag = 0
  /\ slot' = [slot EXCEPT ![c] = [@ EXCEPT !.diag = -1]]
  /\ UNCHANGED <<uid, issued, cls, tool, urls, probe>>

\* req.on('timeout') of the body fetch
BodyFetchTimedOut(c) ==
  /\ slot[c].rpc = "fetchBody"
  /\ slot[c].diag = 0
  /\ BodyResolved(c, BodyTimedOut)

\* testHttpEndpoint resolves for slot c: the classifier composes its outcome
\* and the callback that awaited it goes on
ProbeResolved(c, p) ==
  /\ Validated(c, slot[c],
       validateXmlRpcResponse(slot[c].err, slot[c].res,
         OperationName(slot[c].method), slot[c].body, testHttpEndpoint(p)),
       slot[c].res)
  /\ UNCHANGED <<issued, cls, tool, urls, probe>>

\* the response callback of the probe of slot c
ProbeResponded(c, p) ==
  /\ slot[c].rpc = "probe"
  /\ ProbeResolved(c, p)

\* req.on('error') of the probe
ProbeFailed(c) ==
  /\ slot[c].rpc = "probe"
  /\ ProbeResolved(c, HttpError)

\* req.on('timeout') of the probe
ProbeTimedOut(c) ==
  /\ slot[c].rpc = "probe"
  /\ slot[c].diag = 0
  /\ ProbeResolved(c, HttpTimeout)

(* ------------------------------------------------------------------ *)
(* Timers                                                               *)
(* ------------------------------------------------------------------ *)

\* the setTimeout callback of authenticate
AuthTimerFires(c) ==
  /\ slot[c].timer = 0
  /\ slot[c].method = "authenticate"
  /\ slot' = [slot EXCEPT ![c] =
                ResolveAuth([@ EXCEPT !.timer = -1], Failure(<<MSG_AUTH_TIMEOUT>>), uid)]
  /\ UNCHANGED <<uid, issued, cls, tool, urls, probe>>

\* the setTimeout callback of searchRead
SearchTimerFires(c) ==
  /\ slot[c].timer = 0
  /\ slot[c].method = "search_read"
  /\ slot' = [slot EXCEPT ![c] =
                ResolveCall([@ EXCEPT !.timer = -1], Failure(<<MSG_SEARCH_TIMEOUT>>))]
  /\ UNCHANGED <<uid, issued, cls, tool, urls, probe>>

\* the setTimeout callback of testConnection
ConnTimerFires(c) ==
  /\ slot[c].timer = 0
  /\ slot[c].method = "version"
  /\ slot' = [slot EXCEPT ![c] =
                ResolveCall([@ EXCEPT !.timer = -1], Failure(<<MSG_CONN_TIMEOUT>>))]
  /\ UNCHANGED <<uid, issued, cls, tool, urls, probe>>

\* The clock advances in steps of the shortest timeout of the program, of
\* which every other timeout is a multiple; callbacks run at any point
\* between two steps, so every order of the events is kept.
Quantum == BodyTimeout

\* time passes: no timer is due, every armed timer runs down; with
\* `clocked`, the age of each pending authenticate() is recorded too
Tick(clocked) ==
  /\ \E c \in Calls : slot[c].timer > 0 \/ slot[c].diag > 0
  /\ \A c \in Calls : slot[c].timer # 0 /\ slot[c].diag # 0
  /\ slot' = [c \in Calls |->
       [slot[c] EXCEPT
          !.timer = IF @ > 0 THEN @ - Quantum ELSE @,
          !.diag = IF @ > 0 THEN @ - Quantum ELSE @,
          !.elapsed = IF clocked /\ slot[c].authState = "pending"
                      THEN @ + Quantum ELSE @]]
  /\ UNCHANGED <<uid, issued, cls, tool, urls, probe>>

(* ------------------------------------------------------------------ *)
(* Inputs and the specification                                         *)
(* ------------------------------------------------------------------ *)

Models == {"sale.order"}
Domains == {<< <<"state", "=", "sale">> >>}
FieldLists == {<<"id", "name">>}
Limits == {0, 2000}
Offsets == {10}
Orders == {"date_order desc"}

\* a parameter object in which exactly the keys of g are supplied
ParamsGiven(g) ==
  {[given |-> g, model |-> m,
    domain |-> IF "domain" \in g THEN d ELSE <<>>,
    fields |-> IF "fields" \in g THEN f ELSE <<>>,
    limit |-> IF "limit" \in g THEN l ELSE 0,
    offset |-> IF "offset" \in g THEN o ELSE 0,
    order |-> IF "order" \in g THEN r ELSE ""] :
     m \in Models, d \in Domains, f \in FieldLists, l \in Limits, o \in Offsets,
     r \in Orders}

AllParams == UNION {ParamsGiven(g) : g \in SUBSET ParamKeys}

\* the parameters operation op may be invoked with, out of the set P
ParamsFor(op, P) ==
  IF op = "searchRead" THEN P
  ELSE IF op = "count" THEN {p \in P : p.given \subseteq {"domain"}}
  ELSE IF op = "getFields" THEN {p \in P : p.given = {}}
  ELSE {NoParams}

\* The inputs of the overlapping invocations of Spec: the default and one
\* fully supplied parameter object, a structural and a generic remote error
LeanInputs ==
  [slots |-> Calls,
   ops |-> {"authenticate", "searchRead", "count", "getFields"},
   params |-> ParamsGiven({}) \cup
              {p \in ParamsGiven(ParamKeys) :
                 p.limit = 0 /\ p.offset = 10 /\ p.domain # <<>> /\ p.fields # <<>>
                 /\ p.order = "date_order desc"},
   errors |-> {TagErrorHTML, AccessDenied},
   identities |-> {1},
   bodies |-> {<<"<html>", "<title>", "404 Not Found", "</title>">>},
   probes |-> {HttpResponse(200, TRUE, <<"text/html", "; charset=utf-8">>)}]

\* the steps of the invocations, with the inputs out of I
NextOf(I) ==
  \E c \in I.slots :
    \/ \E op \in I.ops : \E p \in ParamsFor(op, I.params) : Invoke(c, op, p)
    \/ \E a \in Answers(slot[c].method, I.errors, I.identities) : RemoteAnswer(c, a[1], a[2])
    \/ \E b \in I.bodies : BodyFetched(c, b)
    \/ BodyFetchFailed(c)
    \/ BodyFetchTimedOut(c)
    \/ \E p \in I.probes : ProbeResponded(c, p)
    \/ ProbeFailed(c)
    \/ ProbeTimedOut(c)
    \/ AuthTimerFires(c)
    \/ SearchTimerFires(c)

Next == NextOf(LeanInputs) \/ Tick(FALSE)

\* overlapping invocations on every slot
Spec == Init /\ [][Next]_vars

\* The inputs of SeqSpec: one invocation at a time, of every operation, with
\* every parameter object, every shape of remote error, several bodies and
\* probe responses
RichInputs ==
  [slots |-> {1},
   ops |-> Ops,
   params |-> AllParams,
   errors |-> {TagErrorHTML, AccessDenied, ErrNoMsg("ECONNREFUSED"), ErrNoMsg(""),
               Err(<<>>, "")},
   identities |-> Identities,
   bodies |-> {<<"<html>", "<title>", "404 Not Found", "</title>">>,
               <<"<TITLE>", Blank, "Login", "</TITLE>">>,
               <<"<h1>", "Odoo">>},
   probes |-> {HttpResponse(200, TRUE, <<"text/html", "; charset=utf-8">>),
               HttpResponse(200, TRUE, <<"text/xml">>),
               HttpResponse(500, FALSE, <<>>),
               HttpResponse(405, TRUE, <<"text/html">>),
               HttpResponse(404, TRUE, <<"text/html">>)}]

SeqNext == NextOf(RichInputs) \/ ConnTimerFires(1) \/ Tick(TRUE)

\* one invocation at a time, the age of each authenticate() recorded
SeqSpec == Init /\ [][SeqNext]_vars

(* ------------------------------------------------------------------ *)
(* The classifier on its own, over every remote error message           *)
(* ------------------------------------------------------------------ *)

\* the longest error message, in tokens
MaxMsgLen == 6

MsgAlphabet == {SIG, SPACE, QUOTE, "HTML"}

\* every string of at most n tokens of the alphabet
MessagesUpTo(n) == UNION {[1..k -> MsgAlphabet] : k \in 0..n}

ClassifierErrors ==
  {Err(m, "") : m \in MessagesUpTo(MaxMsgLen)} \cup {ErrNoMsg("E500"), ErrNoMsg("")}

ClassifierBodies ==
  {BodyRead(<<"<title>", "Login", "</title>">>), BodyRead(<<>>), BodyError, BodyTimedOut}

ClassifierProbes ==
  {HttpResponse(200, TRUE, <<"text/html">>), HttpResponse(400, TRUE, <<"text/xml">>),
   HttpResponse(405, FALSE, <<>>), HttpError, HttpTimeout}

ClassifierInit ==
  /\ SessionInit
  /\ tool = NoTool /\ urls = NoLookup /\ probe = NoProbeRun
  /\ \E e \in ClassifierErrors :
       cls = [stage |-> "called", error |-> e, body |-> NoBody, out |-> NoOutcome]

\* validateXmlRpcResponse(error, null, 'Connection test') up to its first await
ClassifierStarts ==
  /\ cls.stage = "called"
  /\ cls' = IF IsTagError(cls.error)
            THEN [cls EXCEPT !.stage = "fetchBody"]
            ELSE [cls EXCEPT !.stage = "returned",
                    !.out = validateXmlRpcResponse(cls.error, Null, "Connection test",
                                                   NoBody, NoHttpTest)]
  /\ UNCHANGED <<uid, slot, issued, tool, urls, probe>>

\* inspectResponseBody resolves
ClassifierBody(b) ==
  /\ cls.stage = "fetchBody"
  /\ cls' = [cls EXCEPT !.stage = "probe", !.body = inspectResponseBody(b)]
  /\ UNCHANGED <<uid, slot, issued, tool, urls, probe>>

\* testHttpEndpoint resolves and the classifier returns
ClassifierProbe(p) ==
  /\ cls.stage = "probe"
  /\ cls' = [cls EXCEPT !.stage = "returned",
               !.out = validateXmlRpcResponse(cls.error, Null, "Connection test",
                                              cls.body, testHttpEndpoint(p))]
  /\ UNCHANGED <<uid, slot, issued, tool, urls, probe>>

ClassifierNext ==
  \/ ClassifierStarts
  \/ \E b \in ClassifierBodies : ClassifierBody(b)
  \/ \E p \in ClassifierProbes : ClassifierProbe(p)

ClassifierSpec == ClassifierInit /\ [][ClassifierNext]_vars

(* ------------------------------------------------------------------ *)
(* One invocation at a time under a fair scheduler                      *)
(* ------------------------------------------------------------------ *)

FairInputs == [LeanInputs EXCEPT !.slots = {1}, !.ops = Ops]

FairNext == NextOf(FairInputs) \/ ConnTimerFires(1) \/ Tick(FALSE)

\* The event loop runs every due timer callback, time passes, and the HTTP
\* layer reports a timeout of its own requests; nothing makes the remote
\* side answer a call.
FairSpec ==
  /\ Init
  /\ [][FairNext]_vars
  /\ WF_vars(Tick(FALSE))
  /\ WF_vars(AuthTimerFires(1))
  /\ WF_vars(SearchTimerFires(1))
  /\ WF_vars(ConnTimerFires(1))
  /\ WF_vars(BodyFetchTimedOut(1))
  /\ WF_vars(ProbeTimedOut(1))

(* ------------------------------------------------------------------ *)
(* Tools: argument validation and the three handlers                    *)
(* ------------------------------------------------------------------ *)

ToolNames == {"get_sales_orders", "get_sales_order_details", "get_sales_stats"}

\* z.number().min(1).max(1000)
MinLimit == 1
MaxLimit == 1000
\* z.number().min(0), z.number().min(1)
MinOffset == 0
MinOrderId == 1

BACKSLASH == "\\"

\* the pattern '^\\d{4}-\\d{2}-\\d{2}$' of the inputSchema of get_sales_stats
\* on a string of characters: four digits, two digits, two digits
DatePatternDigits(s) ==
  /\ Len(s) = 10
  /\ \A i \in {1, 2, 3, 4, 6, 7, 9, 10} :
       s[i] \in {"0", "1", "2", "3", "4", "5", "6", "7", "8", "9"}
  /\ s[5] = "-" /\ s[8] = "-"

\* /^\\d{4}-\\d{2}-\\d{2}$/ on a string of characters: in a regular
\* expression literal \\ is a backslash and d{4} is the letter d four times
DatePattern(s) ==
  /\ Len(s) = 13
  /\ \A i \in {1, 7, 11} : s[i] = BACKSLASH
  /\ \A i \in {2, 3, 4, 5, 8, 9, 12, 13} : s[i] = "d"
  /\ s[6] = "-" /\ s[10] = "-"

GroupKeys == {"user_id", "team_id", "state", "partner_id"}

\* a variant without .max(1000)
LimitAcceptedNoMax(l) == l >= MinLimit

\* z.number().min(1).max(1000) accepts l
LimitAccepted(l) == l >= MinLimit /\ l <= MaxLimit

\* the keys of each schema; z.object drops the others
SchemaKeys(name) ==
  IF name = "get_sales_orders" THEN {"domain", "limit", "offset", "fields"}
  ELSE IF name = "get_sales_order_details" THEN {"order_id", "include_lines"}
  ELSE {"date_from", "date_to", "group_by"}

\* the keys of the arguments that the schema of the tool rejects, in the
\* order of the schema
SchemaIssues(name, a) ==
  IF name = "get_sales_orders" THEN
    (IF "limit" \in a.given /\ ~LimitAccepted(a.limit) THEN <<"limit">> ELSE <<>>)
    \o (IF "offset" \in a.given /\ a.offset < MinOffset THEN <<"offset">> ELSE <<>>)
  ELSE IF name = "get_sales_order_details" THEN
    (IF "order_id" \notin a.given \/ a.order_id < MinOrderId
       THEN <<"order_id">> ELSE <<>>)
  ELSE
    (IF "date_from" \in a.given /\ ~DatePattern(a.date_from)
       THEN <<"date_from">> ELSE <<>>)
    \o (IF "date_to" \in a.given /\ ~DatePattern(a.date_to) THEN <<"date_to">> ELSE <<>>)
    \o (IF "group_by" \in a.given /\ a.group_by \notin GroupKeys
          THEN <<"group_by">> ELSE <<>>)

\* Schema.parse(args): the arguments the handler receives
Parsed(name, a) == [a EXCEPT !.given = @ \cap SchemaKeys(name)]

\* messages.join('\\n') of `${e.path.join('.')}: ${e.message}`
RECURSIVE IssueLines(_)
IssueLines(keys) ==
  IF keys = <<>> THEN <<>>
  ELSE (IF Len(keys) > 1 THEN IssueLines(SubSeq(keys, 1, Len(keys) - 1)) \o <<"\\n">>
        ELSE <<>>)
       \o <<keys[Len(keys)], ": ", "e.message">>

\* the reply to a request whose arguments the schema rejects
ValidationError(keys) ==
  ToolText(TRUE, <<"Validation error:\\n">> \o IssueLines(keys))

\* `${n}` for the ids of the model
NumText(n) ==
  CASE n = 0 -> "0" [] n = 1 -> "1" [] n = 7 -> "7" [] n = 8 -> "8"
    [] n = 11 -> "11" [] n = 12 -> "12" [] OTHER -> "?"

\* the value of a list of ids inside a filter
IdsText(ids) ==
  IF ids = <<11>> THEN "[11]" ELSE IF ids = <<11, 12>> THEN "[11,12]" ELSE "[]"

\* JSON.parse(args.domain): the texts of the model it accepts, and its value
DraftFilter == "[[\"state\",\"=\",\"draft\"]]"
JsonParses(t) == t \in {DraftFilter, "[]"}
JsonValue(t) == IF t = DraftFilter THEN << <<"state", "=", "draft">> >> ELSE <<>>

\* args.fields.split(','): the pieces between the commas
RECURSIVE SplitCommas(_)
SplitCommas(text) ==
  IF \A i \in 1..Len(text) : text[i] # "," THEN <<text>>
  ELSE LET i == Least({k \in 1..Len(text) : text[k] = ","})
       IN <<SubSeq(text, 1, i - 1)>> \o SplitCommas(SubSeq(text, i + 1, Len(text)))

\* .map(f => f.trim()): each piece is blanks around at most one name
FieldNames(text) ==
  LET pieces == SplitCommas(text)
  IN [k \in 1..Len(pieces) |->
        IF Trim(pieces[k]) = <<>> THEN "" ELSE Trim(pieces[k])[1]]

OrderFields ==
  <<"id", "name", "partner_id", "date_order", "state", "amount_untaxed",
    "amount_tax", "amount_total", "currency_id", "user_id", "team_id",
    "invoice_status", "delivery_status">>

LineFields ==
  <<"id", "product_id", "name", "product_uom_qty", "qty_delivered", "qty_invoiced",
    "price_unit", "price_subtotal", "price_total", "discount">>

StatsFields ==
  <<"id", "name", "partner_id", "date_order", "amount_total", "user_id", "team_id",
    "state">>

ConfirmedOnly == << <<"state", "=", "sale">> >>

\* args.limit || 100
OrdersLimit(a) == IF "limit" \in a.given /\ a.limit # 0 THEN a.limit ELSE DefaultLimit

\* args.offset || 0
OrdersOffset(a) == IF "offset" \in a.given /\ a.offset # 0 THEN a.offset ELSE DefaultOffset

\* handleGetSalesOrders: JSON.parse(args.domain) throws
OrdersThrows(a) == "domain" \in a.given /\ a.domain # "" /\ ~JsonParses(a.domain)

\* handleGetSalesOrders: the parameters of its searchRead
OrdersParams(a) ==
  [given |-> {"domain", "fields", "limit", "offset", "order"},
   model |-> "sale.order",
   domain |-> IF "domain" \in a.given /\ a.domain # "" THEN JsonValue(a.domain)
              ELSE ConfirmedOnly,
   fields |-> IF "fields" \in a.given /\ a.fields # <<>> THEN FieldNames(a.fields)
              ELSE OrderFields,
   limit |-> OrdersLimit(a),
   offset |-> OrdersOffset(a),
   order |-> "date_order desc"]

\* handleGetSalesOrderDetails: the parameters of its first searchRead
DetailsParams(a) ==
  [given |-> {"domain", "limit"}, model |-> "sale.order",
   domain |-> << <<"id", "=", NumText(a.order_id)>> >>,
   fields |-> <<>>, limit |-> 1, offset |-> 0, order |-> ""]

\* args.include_lines !== false
IncludeLines(a) == ~("include_lines" \in a.given /\ ~a.include_lines)

\* handleGetSalesOrderDetails: the parameters of its second searchRead
LinesParams(order) ==
  [given |-> {"domain", "fields"}, model |-> "sale.order.line",
   domain |-> << <<"id", "in", IdsText(order.order_line)>> >>,
   fields |-> LineFields, limit |-> 0, offset |-> 0, order |-> ""]

\* handleGetSalesStats: the filter, with the dates that are given and not ''
StatsDomain(a) ==
  ConfirmedOnly
  \o (IF "date_from" \in a.given /\ a.date_from # <<>>
        THEN << <<"date_order", ">=", a.date_from>> >> ELSE <<>>)
  \o (IF "date_to" \in a.given /\ a.date_to # <<>>
        THEN << <<"date_order", "<=", a.date_to>> >> ELSE <<>>)

\* handleGetSalesStats: the parameters of its searchRead
StatsParams(a) ==
  [given |-> {"domain", "fields"}, model |-> "sale.order",
   domain |-> StatsDomain(a), fields |-> StatsFields,
   limit |-> 0, offset |-> 0, order |-> ""]

\* the parameters of the first searchRead of the handler of a tool
FirstParams(name, a) ==
  IF name = "get_sales_orders" THEN OrdersParams(a)
  ELSE IF name = "get_sales_order_details" THEN DetailsParams(a)
  ELSE StatsParams(a)

\* orders.reduce((sum, order) => sum + (order.amount_total || 0), 0)
RECURSIVE SumAmounts(_)
SumAmounts(rows) ==
  IF rows = <<>> THEN 0
  ELSE SumAmounts(SubSeq(rows, 1, Len(rows) - 1)) + rows[Len(rows)].amount_total

\* the ids of the rows, in their order
RowIds(rows) == [k \in 1..Len(rows) |-> rows[k].id]

\* the rows of a successful searchRead: result.data || []
RowsOf(o) == IF Falsy(o.data) THEN <<>> ELSE o.data.l

\* what handleGetSalesOrders returns once its searchRead resolved with o
OrdersText(o) ==
  IF ~o.success THEN ToolText(FALSE, <<"Error retrieving sales orders: ">> \o o.error)
  ELSE ToolJson("orders", Len(RowsOf(o)), SumAmounts(RowsOf(o)), 0, FALSE, <<>>)

\* what handleGetSalesStats returns once its searchRead resolved with o
StatsText(o) ==
  IF ~o.success THEN ToolText(FALSE, <<"Error retrieving sales statistics: ">> \o o.error)
  ELSE ToolJson("stats", Len(RowsOf(o)), SumAmounts(RowsOf(o)), 0, FALSE, <<>>)

\* what handleGetSalesOrderDetails returns without asking for the lines,
\* once its first searchRead resolved with o
DetailsText(a, o) ==
  IF ~o.success THEN ToolText(FALSE, <<"Error retrieving sales order: ">> \o o.error)
  ELSE IF RowsOf(o) = <<>>
    THEN ToolText(FALSE, <<"Sales order with ID ", NumText(a.order_id), " not found">>)
  ELSE ToolJson("details", 1, RowsOf(o)[1].amount_total, RowsOf(o)[1].id, FALSE, <<>>)

\* includeLines && order.order_line && order.order_line.length > 0
AsksLines(a, o) ==
  o.success /\ RowsOf(o) # <<>> /\ IncludeLines(a) /\ RowsOf(o)[1].order_line # <<>>

\* what handleGetSalesOrderDetails returns once the searchRead of the
\* lines of `order` resolved with o: a failure leaves order_lines out
LinesText(order, o) ==
  IF o.success
    THEN ToolJson("details", 1, order.amount_total, order.id, TRUE, RowIds(RowsOf(o)))
  ELSE ToolJson("details", 1, order.amount_total, order.id, FALSE, <<>>)

\* a tool call is awaiting a searchRead
ToolPending == tool.stage \in {"orders", "lines"}

\* the searchRead a tool call awaits has resolved: its continuation runs
\* before any other callback
ToolReady == ToolPending /\ slot[1].pc = "done"

\* the tool call returns out
ToolReturns(name, a, out) ==
  tool' = [stage |-> "returned", name |-> name, args |-> a, out |-> out,
           order |-> tool.order, sent |-> tool.sent, matching |-> tool.matching]

\* the CallTool request handler up to its first await: an unknown name
\* throws, the schema rejects the arguments, JSON.parse throws, or the
\* handler sends its first searchRead, while n orders of the remote side
\* match the filter of the request
CallTool(name, a, n) ==
  /\ ~ToolPending
  /\ Free(slot[1])
  /\ UNCHANGED <<uid, issued, cls, urls, probe>>
  /\ IF name \notin ToolNames THEN
       /\ tool' = [stage |-> "returned", name |-> name, args |-> a,
                   out |-> ToolText(TRUE, <<"Error: ", "Unknown tool: ", name>>),
                   order |-> NoTool.order, sent |-> 0, matching |-> 0]
       /\ slot' = slot
     ELSE IF SchemaIssues(name, a) # <<>> THEN
       /\ tool' = [stage |-> "returned", name |-> name, args |-> a,
                   out |-> ValidationError(SchemaIssues(name, a)),
                   order |-> NoTool.order, sent |-> 0, matching |-> 0]
       /\ slot' = slot
     ELSE IF name = "get_sales_orders" /\ OrdersThrows(Parsed(name, a)) THEN
       /\ tool' = [stage |-> "returned", name |-> name, args |-> Parsed(name, a),
                   out |-> ToolText(FALSE, <<"Error: ", "e.message">>),
                   order |-> NoTool.order, sent |-> 0, matching |-> 0]
       /\ slot' = slot
     ELSE
       /\ tool' = [stage |-> "orders", name |-> name, args |-> Parsed(name, a),
                   out |-> NoToolOut, order |-> NoTool.order, sent |-> 1,
                   matching |-> n]
       /\ slot' = Invoked(1, "searchRead", FirstParams(name, Parsed(name, a)))

\* the handler goes on after the searchRead it awaited: it returns its
\* text, or handleGetSalesOrderDetails sends the searchRead of the lines
ToolContinues ==
  /\ ToolReady
  /\ UNCHANGED <<uid, issued, cls, urls, probe>>
  /\ LET o == slot[1].outcome
         a == tool.args
     IN IF tool.stage = "lines" THEN
          /\ ToolReturns(tool.name, a, LinesText(tool.order, o))
          /\ slot' = slot
        ELSE IF tool.name = "get_sales_orders" THEN
          /\ ToolReturns(tool.name, a, OrdersText(o))
          /\ slot' = slot
        ELSE IF tool.name = "get_sales_stats" THEN
          /\ ToolReturns(tool.name, a, StatsText(o))
          /\ slot' = slot
        ELSE IF AsksLines(a, o) THEN
          /\ tool' = [tool EXCEPT !.stage = "lines", !.order = RowsOf(o)[1], !.sent = 2]
          /\ slot' = Invoked(1, "searchRead", LinesParams(RowsOf(o)[1]))
        ELSE
          /\ ToolReturns(tool.name, a, DetailsText(a, o))
          /\ slot' = slot

(* ------------------------------------------------------------------ *)
(* The tools over the session: one request at a time                    *)
(* ------------------------------------------------------------------ *)

\* the characters of 2024-01-15 and 2024-12-31, and of the text that the
\* pattern of the schema matches
Jan15 == <<"2", "0", "2", "4", "-", "0", "1", "-", "1", "5">>
Dec31 == <<"2", "0", "2", "4", "-", "1", "2", "-", "3", "1">>
PatternText ==
  <<BACKSLASH, "d", "d", "d", "d", "-", BACKSLASH, "d", "d", "-", BACKSLASH, "d", "d">>

\* the arguments of the requests of the model
OrdersArgs ==
  {NoArgs}
  \cup {[NoArgs EXCEPT !.given = {"limit"}, !.limit = l] : l \in {0, 1, 1000, 1001}}
  \cup {[NoArgs EXCEPT !.given = {"offset"}, !.offset = o] : o \in {-1, 0, 10}}
  \cup {[NoArgs EXCEPT !.given = {"domain"}, !.domain = d] :
          d \in {DraftFilter, "not json", ""}}
  \cup {[NoArgs EXCEPT !.given = {"fields", "limit", "group_by"}, !.limit = 5,
                       !.fields = <<"id", ",", Blank, "name">>, !.group_by = "state"]}

DetailsArgs ==
  {NoArgs}
  \cup {[NoArgs EXCEPT !.given = {"order_id"}, !.order_id = i] : i \in {0, 7, 8}}
  \cup {[NoArgs EXCEPT !.given = {"order_id", "include_lines"}, !.order_id = 7,
                       !.include_lines = b] : b \in BOOLEAN}

StatsArgs ==
  {NoArgs}
  \cup {[NoArgs EXCEPT !.given = {"date_from"}, !.date_from = d] :
          d \in {Jan15, PatternText, <<>>}}
  \cup {[NoArgs EXCEPT !.given = {"date_from", "date_to"}, !.date_from = d, !.date_to = d] :
          d \in {Jan15, PatternText}}
  \cup {[NoArgs EXCEPT !.given = {"date_from", "date_to"}, !.date_from = Jan15,
                       !.date_to = Dec31]}
  \cup {[NoArgs EXCEPT !.given = {"group_by"}, !.group_by = g] : g \in {"state", "month"}}

ToolArgs(name) ==
  IF name = "get_sales_orders" THEN OrdersArgs
  ELSE IF name = "get_sales_order_details" THEN DetailsArgs
  ELSE IF name = "get_sales_stats" THEN StatsArgs
  ELSE {NoArgs}

\* the parameters of the calls of searchRead that do not come from a tool
DirectParams ==
  ParamsGiven({}) \cup {p \in ParamsGiven({"limit"}) : p.limit = 2000}

\* the numbers of orders of the remote side that match a filter
DbSizes == {0, 2, 101}

\* order k of the remote side; order 7 has two lines
OrderRow(k) == Row(k, 10, IF k = 7 THEN <<11, 12>> ELSE <<>>)

\* the number that `${n}` wrote
TextNum(t) ==
  CASE t = "1" -> 1 [] t = "7" -> 7 [] t = "8" -> 8 [] t = "11" -> 11
    [] t = "12" -> 12 [] OTHER -> 0

\* search_read of the remote side: rows offset+1 .. offset+limit of rows
Page(rows, offset, limit) ==
  IF offset >= Len(rows) THEN <<>>
  ELSE SubSeq(rows, offset + 1, Min(Len(rows), offset + limit))

\* the rows search_read returns to request req while n orders match its
\* filter: the lines of order 7, the order with the id asked for, or a
\* page of the matching orders
RemoteRows(req, n) ==
  IF req.model = "sale.order.line"
    THEN Page(<<Row(11, 5, <<>>), Row(12, 5, <<>>)>>, req.offset, req.limit)
  ELSE IF req.domain # <<>> /\ req.domain[1][1] = "id"
    THEN (IF TextNum(req.domain[1][3]) \in 1..n
            THEN <<OrderRow(TextNum(req.domain[1][3]))>> ELSE <<>>)
  ELSE Page([k \in 1..n |-> OrderRow(k)], req.offset, req.limit)

\* what the remote side answers the call of slot record r while n orders
\* match: an error, nothing, or the rows search_read selects
ToolAnswers(r, n) ==
  IF r.method = "search_read"
    THEN {<<AccessDenied, Null>>, <<TagErrorHTML, Null>>, <<NoErr, Null>>,
          <<NoErr, List(RemoteRows(r.req, n))>>}
  ELSE Answers(r.method, {AccessDenied}, {1})

ToolNext ==
  \/ \E name \in ToolNames \cup {"get_invoices"} : \E a \in ToolArgs(name) :
       \E n \in DbSizes : CallTool(name, a, n)
  \/ ToolContinues
  \/ \E p \in DirectParams : ~ToolPending /\ Invoke(1, "searchRead", p)
  \/ \E a \in ToolAnswers(slot[1], tool.matching) :
       ~ToolReady /\ RemoteAnswer(1, a[1], a[2])
  \/ \E b \in LeanInputs.bodies : ~ToolReady /\ BodyFetched(1, b)
  \/ ~ToolReady /\ BodyFetchFailed(1)
  \/ ~ToolReady /\ BodyFetchTimedOut(1)
  \/ \E p \in LeanInputs.probes : ~ToolReady /\ ProbeResponded(1, p)
  \/ ~ToolReady /\ ProbeFailed(1)
  \/ ~ToolReady /\ ProbeTimedOut(1)
  \/ ~ToolReady /\ AuthTimerFires(1)
  \/ ~ToolReady /\ SearchTimerFires(1)
  \/ ~ToolReady /\ Tick(FALSE)

\* the three tools and searchRead over one session
ToolSpec == Init /\ [][ToolNext]_vars

(* ------------------------------------------------------------------ *)
(* The diagnosis of a structural failure, over bodies and addresses     *)
(* ------------------------------------------------------------------ *)

TitleTexts ==
  {<<"404 Not Found">>, <<"Login">>, <<"Sign In">>, <<"Server Error">>,
   <<"Unhandled Exception">>, <<"Odoo">>, <<"Login", "Server Error">>,
   <<Blank, "Sign In", Blank>>}

\* the bodies the fetch reads: a page with a title element in each spelling
\* of its tags, and pages without one
DiagnosisBodies ==
  {<<"<html>", o>> \o t \o <<c>> : o \in OpenTitles, t \in TitleTexts, c \in CloseTitles}
    \cup {<<"<h1>", "Odoo">>, <<"<title>", "</title>">>, <<>>}

DiagnosisProbes ==
  {HttpResponse(200, TRUE, <<"text/html", "; charset=utf-8">>),
   HttpResponse(200, TRUE, <<"text/xml">>), HttpResponse(500, FALSE, <<>>), HttpError}

\* the addresses the client is configured with
DiagnosisAddresses ==
  {<<"https:", "//", "acme.example.com">>,
   <<"https:", "//", "acme.example.com", "/">>,
   <<"https:", "//", "acme.example.com", ":", "8069">>,
   <<"https:", "//", "acme.example.com", "/odoo">>,
   <<"http:", "//", "localhost", ":", "8069", "/web">>,
   <<"http:", "//", "localhost">>}

\* a client configured with one of the addresses receives a remote error
\* that holds the signature
DiagnosisInit ==
  /\ SessionInit
  /\ tool = NoTool /\ probe = NoProbeRun
  /\ cls = [stage |-> "called", error |-> TagErrorHTML, body |-> NoBody, out |-> NoOutcome]
  /\ \E a \in DiagnosisAddresses :
       urls = [stage |-> "config", address |-> a, out |-> NoSuggestions,
               again |-> NoSuggestions]

\* contentType.includes('text/html') is reached with the outcome t of the probe
AsksSuggestions(t) ==
  /\ t.success
  /\ t.hasCT /\ ~Includes(t.contentType, "text/xml") /\ Includes(t.contentType, "text/html")

\* testHttpEndpoint resolves, the classifier composes the diagnosis for
\* this.config.url and returns
DiagnosisProbe(p) ==
  /\ cls.stage = "probe"
  /\ cls' = [cls EXCEPT !.stage = "returned",
               !.out = Failure(DetailedError(cls.error, cls.body, testHttpEndpoint(p),
                                             urls.address))]
  /\ urls' = IF AsksSuggestions(testHttpEndpoint(p))
             THEN [urls EXCEPT !.stage = "returned",
                               !.out = validateAndSuggestUrls(urls.address)]
             ELSE urls
  /\ UNCHANGED <<uid, slot, issued, tool, probe>>

DiagnosisNext ==
  \/ ClassifierStarts
  \/ \E b \in DiagnosisBodies : ClassifierBody(BodyRead(b))
  \/ ClassifierBody(BodyTimedOut)
  \/ \E p \in DiagnosisProbes : DiagnosisProbe(p)

DiagnosisSpec == DiagnosisInit /\ [][DiagnosisNext]_vars

(* ------------------------------------------------------------------ *)
(* The Endpoint Resolver on its own, over a family of addresses         *)
(* ------------------------------------------------------------------ *)

PortParts == {<<>>} \cup {<<":", p>> : p \in Ports}

PathParts ==
  {<<>>, <<"/">>} \cup {<<a>> : a \in PathPieces} \cup {<<a, "/">> : a \in PathPieces}
    \cup {<<a, b>> : a, b \in PathPieces}

\* scheme // host [: port] [path pieces] [/]
WellFormed ==
  {<<sc, "//", h>> \o pt \o pa :
     sc \in Schemes, h \in Hosts, pt \in PortParts, pa \in PathParts}

\* addresses new URL rejects: '', 'localhost', 'localhost/web',
\* 'localhost/', 'https://'
Malformed ==
  {<<>>} \cup {<<h>> : h \in Hosts} \cup {<<h, a>> : h \in Hosts, a \in PathPieces}
    \cup {<<h, "/">> : h \in Hosts} \cup {<<sc, "//">> : sc \in Schemes}

ResolverAddresses == WellFormed \cup Malformed

ResolverInit ==
  /\ SessionInit
  /\ cls = NoRun /\ tool = NoTool /\ probe = NoProbeRun
  /\ \E a \in ResolverAddresses :
       urls = [stage |-> "called", address |-> a, out |-> NoSuggestions,
               again |-> NoSuggestions]

\* OdooClient.validateAndSuggestUrls(address) returns
ResolverReturns ==
  /\ urls.stage = "called"
  /\ urls' = [urls EXCEPT !.stage = "returned",
                          !.out = validateAndSuggestUrls(urls.address)]
  /\ UNCHANGED <<uid, slot, issued, cls, tool, probe>>

\* a second call with the same address returns
ResolverReturnsAgain ==
  /\ urls.stage = "returned"
  /\ urls' = [urls EXCEPT !.stage = "again",
                          !.again = validateAndSuggestUrls(urls.address)]
  /\ UNCHANGED <<uid, slot, issued, cls, tool, probe>>

ResolverNext == ResolverReturns \/ ResolverReturnsAgain

ResolverSpec == ResolverInit /\ [][ResolverNext]_vars

(* ------------------------------------------------------------------ *)
(* The Transport Probe on its own, over the events of its request       *)
(* ------------------------------------------------------------------ *)

ProbeStatuses == {200, 201, 204, 301, 302, 400, 401, 403, 404, 405, 500, 502, 503}

ProbeContentTypes ==
  {<<"text/html">>, <<"text/xml">>, <<"application/json">>}

ProbeResponses ==
  {HttpResponse(n, TRUE, ct) : n \in ProbeStatuses, ct \in ProbeContentTypes}
    \cup {HttpResponse(n, FALSE, <<>>) : n \in ProbeStatuses}

\* testHttpEndpoint('/xmlrpc/2/common') has sent its request
ProbeInit ==
  /\ SessionInit
  /\ cls = NoRun /\ tool = NoTool /\ urls = NoLookup
  /\ probe = [NoProbeRun EXCEPT !.stage = "called"]

\* resolve(o) of the promise of testHttpEndpoint after event ev: the first
\* resolve settles the promise, a later one does nothing
ProbeSettles(ev, o, destroys) ==
  /\ probe' = IF probe.stage = "called"
              THEN [probe EXCEPT !.stage = "resolved", !.first = ev, !.out = o,
                                 !.destroyed = destroys]
              ELSE [probe EXCEPT !.later = @ \cup {ev.kind},
                                 !.destroyed = @ \/ destroys]
  /\ UNCHANGED <<uid, slot, issued, cls, tool, urls>>

\* the response callback: a request gets one response, and none once an
\* error or a timeout has ended it
ProbeGetsResponse(r) ==
  /\ probe.stage = "called"
  /\ ProbeSettles(r, testHttpEndpoint(r), FALSE)

\* req.on('error'): also what req.destroy() raises after a timeout
ProbeGetsError ==
  /\ probe.stage \in {"called", "resolved"}
  /\ "error" \notin probe.later /\ probe.first.kind # "error"
  /\ ProbeSettles(HttpError, testHttpEndpoint(HttpError), FALSE)

\* req.on('timeout'): the socket idled for 10 units; req.destroy()
ProbeGetsTimeout ==
  /\ probe.stage \in {"called", "resolved"}
  /\ ~probe.destroyed
  /\ probe.stage = "resolved" => probe.first.kind = "response"
  /\ ProbeSettles(HttpTimeout, testHttpEndpoint(HttpTimeout), TRUE)

ProbeNext ==
  \/ \E r \in ProbeResponses : ProbeGetsResponse(r)
  \/ ProbeGetsError
  \/ ProbeGetsTimeout

ProbeSpec == ProbeInit /\ [][ProbeNext]_vars

(* ------------------------------------------------------------------ *)
(* Claims                                                               *)
(* ------------------------------------------------------------------ *)

\* the outcome is the timeout failure of authenticate
IsAuthTimeout(o) == ~o.success /\ o.error = <<MSG_AUTH_TIMEOUT>>

\* C1: a searchRead invoked while the session holds an identity sends no
\* authenticate remote call; a searchRead invoked with no identity sends
\* exactly one, and its data call is sent only after that authenticate()
\* resolved with success.
C1_IdentityReuse ==
  \A c \in Calls :
    LET r == slot[c]
    IN r.op = "searchRead" =>
         /\ r.hadUid # NoUid => r.authCalls = 0
         /\ r.hadUid = NoUid => r.authCalls = 1
         /\ (r.hadUid = NoUid /\ r.execCalls > 0) =>
              (r.authState = "resolved" /\ r.authOutcome.success)

\* a searchRead that reused the identity and one that authenticated first
\* have both returned rows
C1_Witness ==
  \E c, d \in Calls :
    /\ slot[c].op = "searchRead" /\ slot[c].hadUid # NoUid
    /\ slot[c].pc = "done" /\ slot[c].outcome.success /\ slot[c].authCalls = 0
    /\ slot[d].op = "searchRead" /\ slot[d].hadUid = NoUid
    /\ slot[d].pc = "done" /\ slot[d].outcome.success /\ slot[d].authCalls = 1

\* C7: a searchRead invoked with no identity whose authenticate() failed
\* has returned a failure with exactly the message of that authenticate
\* outcome and has sent no execute_kw call.
C7_AuthFailurePassedOn ==
  \A c \in Calls :
    LET r == slot[c]
    IN (r.op = "searchRead" /\ r.authState = "resolved" /\ ~r.authOutcome.success) =>
         /\ r.pc = "done"
         /\ ~r.outcome.success
         /\ r.outcome.error = r.authOutcome.error
         /\ r.execCalls = 0

\* a searchRead has passed on the diagnosis of a structural failure of
\* its authentication
C7_Witness ==
  \E c \in Calls :
    /\ slot[c].op = "searchRead" /\ slot[c].pc = "done"
    /\ slot[c].authState = "resolved" /\ ~slot[c].authOutcome.success
    /\ ~IsAuthTimeout(slot[c].authOutcome)
    /\ Contains(slot[c].outcome.error, <<"HTML">>)

\* C9: every execute_kw call sent carries an identity that is not absent
\* and that the remote side returned to an authenticate call.
C9_ExecCarriesIdentity ==
  \A c \in Calls :
    slot[c].execCalls > 0 =>
      (slot[c].req.uid # NoUid /\ slot[c].req.uid \in issued)

\* a data call was sent with the identity that a timed-out authentication
\* of the other, overlapping invocation stored late
C9_Witness ==
  \E c, d \in Calls :
    /\ c # d
    /\ IsAuthTimeout(slot[d].authOutcome) /\ slot[d].late
    /\ slot[d].method = "authenticate"
    /\ slot[c].op \in DataOps /\ slot[c].authCalls = 0 /\ slot[c].execCalls = 1
    /\ slot[c].rpc = "inflight"

\* the text has at least one character
NonEmptyText(s) == \E i \in 1..Len(s) : s[i] # ""

\* the outcome is the diagnosis of a structural failure
IsStructural(o) ==
  ~o.success /\ Contains(o.error, <<"Server returned non-XML-RPC response (found <">>)

\* C2, as claimed: an authenticate() that resolved later than 15 time
\* units after its invocation resolved as the timeout failure.
C2_TimeoutAfterBound ==
  \A c \in Calls :
    (slot[c].authState = "resolved" /\ slot[c].elapsed > AuthTimeout) =>
      IsAuthTimeout(slot[c].authOutcome)

\* C2, amended: an authenticate() whose remote call had not answered when
\* its outcome was resolved has the timeout failure as its outcome, and
\* keeps it when the remote call answers late; an authenticate() still
\* pending after the bound is one whose remote call answered before the
\* timer ran and whose classifier is doing its diagnostic I/O; an outcome
\* resolved after the bound is the timeout failure or the classifier's
\* structural failure, never success.
C2_TimeoutUnlessAnswered ==
  \A c \in Calls :
    LET r == slot[c]
    IN /\ (r.authState = "resolved" /\ r.method = "authenticate"
            /\ (r.rpc = "inflight" \/ r.late)) => IsAuthTimeout(r.authOutcome)
       /\ (r.authState = "pending" /\ r.elapsed > AuthTimeout) =>
            (r.timer = -1 /\ r.rpc \in {"fetchBody", "probe"})
       /\ (r.authState = "resolved" /\ r.elapsed > AuthTimeout) =>
            (IsAuthTimeout(r.authOutcome) \/ IsStructural(r.authOutcome))

\* an authenticate() whose remote call answered before the bound resolved
\* after the bound, with the structural failure
C2_Witness ==
  \E c \in Calls :
    /\ slot[c].op = "authenticate" /\ slot[c].authState = "resolved"
    /\ slot[c].elapsed > AuthTimeout
    /\ IsStructural(slot[c].authOutcome)

\* C3, as claimed: once authenticate() has returned the timeout failure,
\* and while no other authenticate() is or was under way, the Session
\* Identity is the one held when it was invoked.
C3_TimeoutKeepsIdentity ==
  \A c \in Calls :
    (slot[c].authState = "resolved" /\ IsAuthTimeout(slot[c].authOutcome)
       /\ slot[c].alone) => uid = slot[c].hadUid

\* C4, as claimed: every invocation eventually resolves with an outcome.
C4_EveryInvocationResolves ==
  (slot[1].pc \in {"awaitAuth", "awaitCall"}) ~> (slot[1].pc = "done")

\* /Unknown XML-RPC tag '...'/ with a tag name between the quotes occurs
\* at i..j of message m
QuotedTagAt(m, i, j) ==
  /\ i + 3 < j /\ j <= Len(m)
  /\ m[i] = SIG /\ m[i + 1] = SPACE /\ m[i + 2] = QUOTE /\ m[j] = QUOTE
  /\ \A k \in (i + 3)..(j - 1) : m[k] # QUOTE

\* C5: when the classifier has returned for a remote error whose message
\* holds the signature with a quoted tag name T (the first such place),
\* its outcome is a failure whose message reports T as the tag found,
\* whatever the body fetch and the probe resolved.
C5_DiagnosisNamesTag ==
  cls.stage = "returned" =>
    LET m == cls.error.message
    IN \A i, j \in 1..Len(m) :
         (/\ QuotedTagAt(m, i, j)
          /\ \A i2 \in 1..(i - 1) : \A j2 \in 1..Len(m) : ~QuotedTagAt(m, i2, j2)) =>
           /\ ~cls.out.success
           /\ Contains(cls.out.error,
                <<"Server returned non-XML-RPC response (found <">>
                  \o SubSeq(m, i + 3, j - 1) \o <<"> tag). ">>)

\* the classifier diagnosed the tag HTML although the body fetch timed
\* out and the probe failed
C5_Witness ==
  /\ cls.stage = "returned"
  /\ cls.error.message = <<SIG, SPACE, QUOTE, "HTML", QUOTE>>
  /\ cls.body = <<"Response body fetch timed out">>
  /\ ~cls.out.success
  /\ Contains(cls.out.error,
       <<"Server returned non-XML-RPC response (found <", "HTML", "> tag). ">>)
  /\ Contains(cls.out.error, <<"\n\nEndpoint test failed: ">>)

\* C6: every failure outcome carries a non-empty message: the outcome of
\* every operation, the outcome of every authenticate() a data operation
\* awaited, and the outcome of the probe for whatever it met.
C6_FailureHasMessage ==
  /\ \A c \in Calls :
       /\ (slot[c].pc = "done" /\ ~slot[c].outcome.success) =>
            NonEmptyText(slot[c].outcome.error)
       /\ (slot[c].authState = "resolved" /\ ~slot[c].authOutcome.success) =>
            NonEmptyText(slot[c].authOutcome.error)
  /\ \A p \in RichInputs.probes \cup {HttpError, HttpTimeout} :
       ~testHttpEndpoint(p).success => NonEmptyText(testHttpEndpoint(p).error)

\* a count has failed on a remote error that has no message
C6_Witness ==
  \E c \in Calls :
    /\ slot[c].op = "count" /\ slot[c].pc = "done" /\ slot[c].execCalls = 1
    /\ ~slot[c].outcome.success
    /\ Contains(slot[c].outcome.error, <<"undefined">>)

\* the data operation of r has returned the remote side's rejection of
\* the identity its execute_kw call carried
Rejected(r) ==
  /\ r.op \in DataOps /\ r.pc = "done" /\ r.execCalls > 0
  /\ ~r.outcome.success /\ Contains(r.outcome.error, <<"Access Denied">>)

\* the invocation of r sent an authenticate call after its data call
Reauthenticated(r) == r.authCalls > (IF r.hadUid = NoUid THEN 1 ELSE 0)

\* C8, as claimed: a data operation whose identity the remote side
\* rejected has re-authenticated before it returned.
C8_ReauthOnRejection ==
  \A c \in Calls : Rejected(slot[c]) => Reauthenticated(slot[c])

\* C8, amended: a data operation whose identity the remote side rejected
\* returns that failure after its one data call, sends no authenticate
\* call after it, and the session still holds the rejected identity.
C8_RejectionIsReturned ==
  \A c \in Calls :
    Rejected(slot[c]) =>
      /\ ~Reauthenticated(slot[c])
      /\ slot[c].execCalls = 1
      /\ uid = slot[c].req.uid /\ uid # NoUid

\* a searchRead that reused the held identity has returned its rejection
C8_Witness ==
  \E c \in Calls :
    /\ Rejected(slot[c]) /\ slot[c].op = "searchRead"
    /\ slot[c].hadUid # NoUid /\ slot[c].authCalls = 0

\* C10: the search_read request carries limit 100, offset 0 and order
\* 'id desc' for each parameter the caller left out and the caller's value
\* for each one supplied, and the caller's filter expression.
C10_RequestEchoesParams ==
  \A c \in Calls :
    LET r == slot[c]
    IN (r.op = "searchRead" /\ r.execCalls > 0) =>
         /\ r.req.limit = (IF "limit" \in r.params.given THEN r.params.limit ELSE 100)
         /\ r.req.offset = (IF "offset" \in r.params.given THEN r.params.offset ELSE 0)
         /\ r.req.order = (IF "order" \in r.params.given THEN r.params.order ELSE "id desc")
         /\ r.req.domain = (IF "domain" \in r.params.given THEN r.params.domain ELSE <<>>)

\* a request was sent for a caller who supplied limit 0 and a filter and
\* left offset and order out
C10_Witness ==
  \E c \in Calls :
    /\ slot[c].op = "searchRead" /\ slot[c].execCalls = 1
    /\ slot[c].params.given = {"limit", "domain"} /\ slot[c].params.limit = 0
    /\ slot[c].req.limit = 0 /\ slot[c].req.offset = 0
    /\ slot[c].req.order = "id desc" /\ slot[c].req.domain # <<>>

\* the invocation of r has been resolved by the timer of its authenticate
\* or search_read remote call
TimedOut(r) ==
  \/ /\ r.method = "authenticate" /\ r.authState = "resolved"
     /\ IsAuthTimeout(r.authOutcome)
  \/ /\ r.method = "search_read" /\ r.pc = "done"
     /\ r.outcome = Failure(<<MSG_SEARCH_TIMEOUT>>)

\* C12, as claimed: once a timer has resolved the outcome as the timeout
\* failure, the remote call's late completion starts no body fetch and no
\* probe and leaves the Session Identity as it was.
C12_TimeoutCancelsCall ==
  \A c \in Calls :
    TimedOut(slot[c]) =>
      /\ slot[c].rpc \notin {"fetchBody", "probe"}
      /\ slot[c].alone => uid = slot[c].hadUid

\* the callback of the authenticate call of r received no error and a
\* falsy identity
AnsweredFalsy(r) ==
  /\ r.method = "authenticate" /\ r.ans.called
  /\ ~r.ans.e.isErr /\ Falsy(r.ans.res)

AuthCompletes(c, u) ==
  /\ slot[c].method = "authenticate" /\ slot[c].rpc = "inflight"
  /\ u # NoUid /\ u \in issued'
  /\ \/ /\ slot[c].authState = "pending"
        /\ slot'[c].authState = "resolved"
        /\ slot'[c].authOutcome = Success(Num(u))
     \/ /\ slot[c].authState = "resolved"
        /\ slot'[c].late /\ slot'[c].ans = Answer(NoErr, Num(u))

\* C14: the Session Identity changes only in a step in which an
\* authenticate remote call completes without error and with a truthy
\* identity, and then to that identity; a step that resolves an
\* authenticate() as a failure leaves it unchanged; once set, it is never
\* absent again.
C14_IdentityFrame ==
  [][/\ uid' # uid => \E c \in Calls : AuthCompletes(c, uid')
     /\ \A c \in Calls :
          (slot[c].authState = "pending" /\ slot'[c].authState = "resolved"
             /\ ~slot'[c].authOutcome.success) => uid' = uid
     /\ uid # NoUid => uid' # NoUid]_vars

\* the identity was replaced by a second authentication, and a later
\* authentication that failed has left it
C14_Witness ==
  \E c \in Calls :
    /\ slot[c].op = "authenticate" /\ slot[c].pc = "done"
    /\ ~slot[c].outcome.success
    /\ slot[c].hadUid = 2 /\ uid = 2 /\ issued = {1, 2}

\* C19: a count whose remote call completed without error has returned
\* success with the value the remote side returned, 0 included.
C19_CountReturnsNumber ==
  \A c \in Calls :
    LET r == slot[c]
    IN (r.method = "search_count" /\ r.ans.called /\ ~r.ans.e.isErr) =>
         /\ r.pc = "done" /\ r.outcome.success
         /\ r.outcome.data = r.ans.res

\* a count has returned success with 0
C19_Witness ==
  \E c \in Calls :
    /\ slot[c].op = "count" /\ slot[c].pc = "done"
    /\ slot[c].ans = Answer(NoErr, Num(0))
    /\ slot[c].outcome.success /\ slot[c].outcome.data = Num(0)

\* the list has entry e
Has(list, e) == \E i \in 1..Len(list) : list[i] = e

\* no entry of the list occurs twice
NoDuplicates(list) ==
  \A i, j \in 1..Len(list) : list[i] = list[j] => i = j

\* scheme // host, or scheme // host /
IsRootNoPort(a) ==
  /\ Len(a) \in {3, 4}
  /\ a[1] \in Schemes /\ a[2] = "//" /\ a[3] \in Hosts
  /\ Len(a) = 4 => a[4] = "/"

\* the list has the variant of address a with port p and the sub-path,
\* the host in the case URL reports it
HasPortVariant(list, a, p) ==
  \E h \in {a[3], LowerHost(a[3])} :
    Has(list, <<a[1], "//", h, ":", p, SUBPATH>>)

\* C15: for a well-formed address with no port and an empty or root path
\* the resolver returns isValid = true and a list that has the address
\* with /xmlrpc/2/common appended, the port-8069 variant and the port-443
\* variant, and no entry twice.
C15_RootAddressSuggestions ==
  (urls.stage \in {"returned", "again"} /\ IsRootNoPort(urls.address)) =>
    /\ urls.out.isValid
    /\ Has(urls.out.suggestions, SubSeq(urls.address, 1, 3) \o <<SUBPATH>>)
    /\ HasPortVariant(urls.out.suggestions, urls.address, "8069")
    /\ HasPortVariant(urls.out.suggestions, urls.address, "443")
    /\ NoDuplicates(urls.out.suggestions)

\* the resolver returned for https://acme.example.com, where two of the
\* seven suggestions it builds repeat earlier ones
C15_Witness ==
  /\ urls.stage = "returned"
  /\ urls.address = <<"https:", "//", "acme.example.com">>
  /\ urls.out.isValid
  /\ Len(urls.out.suggestions) = 5
  /\ urls.out.suggestions[1] = <<"https:", "//", "acme.example.com", SUBPATH>>

\* the two suggestions of the resolver for an address that does not parse
HttpsFix(a) == <<"https:", "//">> \o a \o <<SUBPATH>>
HttpFix(a) == <<"http:", "//">> \o a \o <<":", "8069", SUBPATH>>

\* C16, as claimed: for every address that fails to parse the resolver
\* returns isValid = false and a list with the https:// form and the
\* http:// :8069 form of the address.
C16_UnparsedAddressFixes ==
  (urls.stage \in {"returned", "again"} /\ urls.address \in Malformed) =>
    /\ ~urls.out.isValid
    /\ Has(urls.out.suggestions, HttpsFix(urls.address))
    /\ Has(urls.out.suggestions, HttpFix(urls.address))

\* C16, amended: for every address that fails to parse the resolver
\* returns isValid = false; the list is the https:// form and the http://
\* :8069 form of the address when the address does not begin with 'http',
\* and is empty when it does.
C16_UnparsedAddressFixesUnlessHttp ==
  (urls.stage \in {"returned", "again"} /\ urls.address \in Malformed) =>
    /\ ~urls.out.isValid
    /\ urls.out.suggestions =
         (IF urls.address # <<>> /\ urls.address[1] \in {"https:", "http:", "httpbin.org"}
          THEN <<>>
          ELSE <<HttpsFix(urls.address), HttpFix(urls.address)>>)

\* the resolver returned the two forms for localhost/web
C16_Witness ==
  /\ urls.stage = "returned"
  /\ urls.address = <<"localhost", "/web">>
  /\ ~urls.out.isValid
  /\ urls.out.suggestions =
       << <<"https:", "//", "localhost", "/web", SUBPATH>>,
          <<"http:", "//", "localhost", "/web", ":", "8069", SUBPATH>> >>

C18_ProbeClassifies ==
  probe.stage = "resolved" =>
    LET ev == probe.first
        o == probe.out
    IN /\ o.success <=> (ev.kind = "response" /\ ev.status \in {200, 400, 500})
       /\ o.success =>
            /\ o.status = ev.status /\ o.headers = ev.headers
            /\ o.hasCT = ev.hasCT /\ o.contentType = ev.contentType
       /\ (ev.kind = "response" /\ ev.status = 405) => o.error = <<MSG_405>>
       /\ (ev.kind = "response" /\ ev.status \notin {200, 400, 500, 405}) =>
            /\ Len(o.error) = 5 /\ o.error[1] = "HTTP "
            /\ o.error[2] = StatusText(ev.status)
            /\ o.error[5] = ". Check if XML-RPC is enabled on this Odoo instance."
       /\ ev.kind = "error" =>
            (Len(o.error) = 3 /\ o.error[1] = "HTTP request failed: ")
       /\ ev.kind = "timeout" => o.error = <<MSG_PROBE_TIMEOUT>>

\* the probe resolved success for a 400 response, and the timeout and the
\* error that followed left the outcome
C18_Witness ==
  /\ probe.stage = "resolved"
  /\ probe.first = HttpResponse(400, TRUE, <<"text/xml">>)
  /\ probe.later = {"timeout", "error"}
  /\ probe.out.success /\ probe.out.status = 400
  /\ <<"content-type", <<"text/xml">>>> \in probe.out.headers


\* C11 (as stated): every search_read request sent to the remote side,
\* through a tool or through searchRead directly, carries a limit of at
\* most 1000.
C11_LimitCapped ==
  \A c \in Calls :
    slot[c].method = "search_read" /\ slot[c].execCalls > 0
      => slot[c].req.limit <= MaxLimit

\* C11 (amended): the search_read request of a tool call carries a limit
\* between 1 and 1000, and every search_read request carries the limit
\* searchRead was called with, 100 when none.
C11_ToolLimitCapped ==
  /\ ToolPending /\ slot[1].method = "search_read"
       => slot[1].req.limit \in MinLimit..MaxLimit
  /\ \A c \in Calls :
       slot[c].method = "search_read" => slot[c].req.limit = LimitOf(slot[c].params)

\* get_sales_orders with the highest limit of the schema has sent its request
C11_Witness ==
  /\ tool.stage = "orders" /\ tool.name = "get_sales_orders"
  /\ "limit" \in tool.args.given /\ tool.args.limit = MaxLimit
  /\ slot[1].method = "search_read" /\ slot[1].req.limit = MaxLimit

\* the filter dom holds the triple ['date_order', op, d]
HasDateTriple(dom, op, d) ==
  \E i \in 1..Len(dom) : dom[i][1] = "date_order" /\ dom[i][2] = op /\ dom[i][3] = d

\* the request of the tool call carries date_from, date_to in YYYY-MM-DD form
DatesWellFormed(t) ==
  /\ t.name = "get_sales_stats" /\ t.stage # "idle"
  /\ t.args.given \subseteq {"date_from", "date_to"}
  /\ "date_from" \in t.args.given /\ DatePatternDigits(t.args.date_from)
  /\ "date_to" \in t.args.given => DatePatternDigits(t.args.date_to)

\* C20: a get_sales_stats call whose date_from and date_to are in
\* YYYY-MM-DD form passes validation, and the filter of its search_read
\* holds ['state', '=', 'sale'] and the two date triples.
C20_DatesReachFilter ==
  DatesWellFormed(tool) =>
    /\ tool.sent >= 1
    /\ ~tool.out.isError
    /\ tool.stage = "orders" /\ slot[1].method = "search_read" =>
         /\ slot[1].req.domain[1] = <<"state", "=", "sale">>
         /\ HasDateTriple(slot[1].req.domain, ">=", tool.args.date_from)
         /\ "date_to" \in tool.args.given =>
              HasDateTriple(slot[1].req.domain, "<=", tool.args.date_to)


\* C21: overlapping searchRead, count and getFields invocations that begin
\* while the session holds no identity do not share an authentication:
\* each of them sends exactly one authenticate remote call of its own, so
\* k of them send k.
C21_NoSharedAuthentication ==
  \A c \in Calls :
    (slot[c].op \in DataOps /\ slot[c].hadUid = NoUid) => slot[c].authCalls = 1

\* two different data operations began with no identity, the second while
\* the authenticate call of the first was outstanding, and the two
\* authenticate calls are in flight together
C21_Witness ==
  \E c, d \in Calls :
    /\ c # d
    /\ slot[c].op \in DataOps /\ slot[d].op \in DataOps /\ slot[c].op # slot[d].op
    /\ slot[c].hadUid = NoUid /\ slot[d].hadUid = NoUid
    /\ ~slot[d].alone
    /\ slot[c].method = "authenticate" /\ slot[c].rpc = "inflight"
    /\ slot[d].method = "authenticate" /\ slot[d].rpc = "inflight"
    /\ slot[c].authCalls + slot[d].authCalls = 2


\* C22: no operation retries: an invocation of searchRead, count or
\* getFields has sent at most one authenticate and at most one execute_kw
\* remote call, and an invocation of authenticate exactly one authenticate
\* remote call, whatever failure or timeout occurred.
C22_SingleAttempt ==
  \A c \in Calls :
    /\ slot[c].op \in DataOps => (slot[c].authCalls <= 1 /\ slot[c].execCalls <= 1)
    /\ slot[c].op = "authenticate" => (slot[c].authCalls = 1 /\ slot[c].execCalls = 0)

\* a searchRead that authenticated has returned the failure of its timer
\* after one execute_kw call
C22_Witness ==
  /\ slot[1].op = "searchRead" /\ slot[1].pc = "done"
  /\ slot[1].outcome = Failure(<<MSG_SEARCH_TIMEOUT>>)
  /\ slot[1].authCalls = 1 /\ slot[1].execCalls = 1


\* the remote calls whose callback runs the classifier
Classified == {"authenticate", "search_read", "version"}

\* the message of the remote error holds the unknown-tag signature
HasSignature(e) == e.isErr /\ Includes(e.message, SIG)

\* the callback of the remote call of slot c runs in this step
CallbackRuns(c) == slot[c].rpc = "inflight" /\ slot'[c].rpc # "inflight"

\* C23: the classifier starts a body fetch exactly in the callbacks whose
\* remote error holds the unknown-tag signature, and a probe only after
\* such a body fetch; with no error and with any other error it starts
\* neither.
C23_DiagnosticsOnlyOnSignature ==
  [][\A c \in Calls :
       /\ (slot[c].rpc # "fetchBody" /\ slot'[c].rpc = "fetchBody")
            <=> (CallbackRuns(c) /\ slot[c].method \in Classified
                 /\ HasSignature(slot'[c].ans.e))
       /\ (slot[c].rpc # "probe" /\ slot'[c].rpc = "probe")
            => (slot[c].rpc = "fetchBody" /\ HasSignature(slot[c].ans.e))]_vars

\* the probe of a searchRead whose remote error held the signature is
\* under way
C23_Witness ==
  /\ slot[1].rpc = "probe" /\ slot[1].method = "search_read"
  /\ HasSignature(slot[1].ans.e)


\* C24: on the structural-failure path the classification always
\* completes: once the body fetch or the probe of an invocation is under
\* way, the diagnostic requests end, also when they fail or time out, and
\* the invocation has resolved with a failure.
C24_ClassificationCompletes ==
  (slot[1].rpc \in {"fetchBody", "probe"})
    ~> (slot[1].rpc = "finished" /\ slot[1].pc = "done" /\ ~slot[1].outcome.success)

\* a testConnection has returned the diagnosis composed after its probe
\* timed out
C24_Witness ==
  /\ slot[1].op = "testConnection" /\ slot[1].pc = "done" /\ slot[1].rpc = "finished"
  /\ ~slot[1].outcome.success
  /\ Contains(slot[1].outcome.error, <<MSG_PROBE_TIMEOUT>>)


\* the body holds a title element at i..j: an opening title tag in any
\* letter case, with or without attributes, a text, the closing tag
TitleElementAt(b, i, j) ==
  /\ 1 <= i /\ i + 1 < j /\ j <= Len(b)
  /\ b[i] \in OpenTitles /\ b[j] \in CloseTitles
  /\ \A k \in (i + 1)..(j - 1) : ~IsMarkup(b[k])

\* the causes the diagnosis appends for a title
TitleCauses(m) == {c \in {MSG_404, MSG_LOGIN, MSG_ERRPAGE} : Includes(m, c)}

\* the cause that the words of the title call for
CauseOf(title) ==
  IF LowerIncludes(title, "404") \/ LowerIncludes(title, "not found") THEN {MSG_404}
  ELSE IF LowerIncludes(title, "login") \/ LowerIncludes(title, "sign in") THEN {MSG_LOGIN}
  ELSE IF LowerIncludes(title, "error") \/ LowerIncludes(title, "exception")
    THEN {MSG_ERRPAGE}
  ELSE {}

\* the diagnosis was composed after a successful probe
ProbeSucceeded(m) == Includes(m, "\n\nEndpoint returns Content-Type: ")

\* C25: after a successful probe, for every fetched body that holds a
\* title element, in any letter case and with or without attributes, the
\* diagnosis reports the text of the title and appends the one cause its
\* words call for: not-found before authentication-required before
\* server-error.
C25_TitleReported ==
  (cls.stage = "returned" /\ ProbeSucceeded(cls.out.error)) =>
    \A i, j \in 1..Len(cls.body) :
      TitleElementAt(cls.body, i, j) =>
        LET title == Trim(SubSeq(cls.body, i + 1, j - 1))
        IN /\ Contains(cls.out.error, <<"\n\nPage title: \"">> \o title \o <<"\"">>)
           /\ TitleCauses(cls.out.error) = CauseOf(title)


\* C26: every body fetch and every probe the classifier starts goes to
\* the authentication sub-path /xmlrpc/2/common, also when the remote
\* call that failed was a search_read sent to /xmlrpc/2/object.
C26_DiagnosticsTargetCommon ==
  \A c \in Calls :
    slot[c].rpc \in {"fetchBody", "probe"} => slot[c].diagPath = "/xmlrpc/2/common"

\* the probe of a search_read that was sent to the data endpoint is under way
C26_Witness ==
  /\ slot[1].rpc = "probe" /\ slot[1].method = "search_read"
  /\ slot[1].endpoint = "/xmlrpc/2/object"
  /\ slot[1].diagPath = "/xmlrpc/2/common"


\* the number of port components of an address
PortCount(s) == Cardinality({i \in 1..Len(s) : s[i] = ":"})

\* C27: every suggestion validateAndSuggestUrls returns for a well-formed
\* address is a well-formed address with at most one port component, also
\* when the address has an explicit port.
C27_SuggestionsWellFormed ==
  (urls.stage = "returned" /\ UrlParses(urls.address)) =>
    \A k \in 1..Len(urls.out.suggestions) :
      /\ UrlParses(urls.out.suggestions[k])
      /\ PortCount(urls.out.suggestions[k]) <= 1


\* the places of the entries of the numbered remediation list in message m
ListEntries(m) == {i \in 2..Len(m) : m[i] = ". ODOO_URL="}

\* the ODOO_URL value of the entry at place i of m: up to the end of its line
EntryValue(m, i) ==
  SubSeq(m, i + 1, Least({k \in (i + 1)..Len(m) : m[k] \in {"\n", MSG_HTML_END}}) - 1)

\* the list has at most 5 entries, numbered 1, 2, ... in their order
NumberedUpToFive(m) ==
  /\ Cardinality(ListEntries(m)) <= 5
  /\ \A i \in ListEntries(m) :
       m[i - 1] = IndexText(Cardinality({j \in ListEntries(m) : j <= i}))

\* C28: the numbered remediation list of the HTML-content-type diagnosis
\* has at most 5 entries, numbered consecutively from 1, and no ODOO_URL
\* value it lists is the address the client is configured with.
C28_ListOffersOtherAddresses ==
  (cls.stage = "returned" /\ Includes(cls.out.error, MSG_HTML)) =>
    /\ NumberedUpToFive(cls.out.error)
    /\ \A i \in ListEntries(cls.out.error) :
         EntryValue(cls.out.error, i) # urls.address


\* get_sales_stats has returned its summary, computed from the rows that
\* the remote side selected for its request
StatsReturned ==
  /\ tool.stage = "returned" /\ tool.name = "get_sales_stats"
  /\ tool.out.kind = "stats"
  /\ slot[1].params = StatsParams(tool.args)
  /\ slot[1].ans = Answer(NoErr, List(RemoteRows(slot[1].req, tool.matching)))

\* C29: the summary of get_sales_stats counts every remote order that
\* matches the filter and totals their amounts, however many they are.
C29_StatsCoverAllOrders ==
  StatsReturned =>
    /\ tool.out.count = tool.matching
    /\ tool.out.amount = SumAmounts([k \in 1..tool.matching |-> OrderRow(k)])

\* get_sales_order_details has returned after the fetch of the lines failed
LinesFetchFailed ==
  /\ tool.stage = "returned" /\ tool.name = "get_sales_order_details"
  /\ tool.sent = 2
  /\ slot[1].params = LinesParams(tool.order)
  /\ slot[1].pc = "done" /\ ~slot[1].outcome.success

\* C30: get_sales_order_details fetches the lines only after the fetch of
\* the order succeeded with an order that has lines, and when the fetch of
\* the lines fails the text it returns is an error text, not the JSON of
\* the order without its lines.
C30_LineFailureReported ==
  /\ tool.sent = 2 =>
       (tool.name = "get_sales_order_details" /\ tool.order.id = tool.args.order_id
        /\ tool.order.order_line # <<>>)
  /\ LinesFetchFailed => tool.out.kind = "text"

====
